---- MODULE Spec2Model ----
(***************************************************************************)
(* Authentication / authorization contract of the task backend.            *)
(*                                                                         *)
(* The repository holds two variants side by side:                         *)
(*   - the ES-module variant: verifyJWT, the function-style task and user  *)
(*     controllers/services/repositories, tokens issued with the payload   *)
(*     key `userId`;                                                       *)
(*   - the CommonJS variant: authMiddleware, optionalAuth, authorize,      *)
(*     checkResourceOwnership, class TaskService/TaskRepository, tokens    *)
(*     issued by utils/generateToken.js with the payload key `id`.         *)
(* Both bind their Mongoose models to the collections `User` and `Task`,   *)
(* so the model has one user store and one task store.                     *)
(***************************************************************************)
EXTENDS Integers, FiniteSets, Sequences, TLC

(* ------------------------------ bounds -------------------------------- *)
MaxTime == 2
MaxUsers == 2
MaxTokens == 1
MaxTasks == 2
MaxTTL == 2

(* ---------------------------- JS values ------------------------------- *)
\* A JavaScript value that can flow through the id plumbing: undefined,
\* null, an ObjectId, or the 24-hex-digit string form of one.  v is the
\* number the hex digits spell.
Undef == [t |-> "undefined", v |-> 0]
Null == [t |-> "null", v |-> 0]
Oid(n) == [t |-> "ObjectId", v |-> n]
Str(n) == [t |-> "string", v |-> n]

\* JS truthiness of such a value
Truthy(x) == x.t \notin {"undefined", "null"}

\* ObjectId.prototype.toString / toJSON : the hex string
ToStr(x) == IF x.t = "ObjectId" THEN Str(x.v) ELSE x

\* Mongoose casts a query value for _id / userId to an ObjectId
CastOid(x) == IF x.t = "string" THEN Oid(x.v) ELSE x

\* property read obj.field : undefined when the object has no such field
Get(obj, field) == IF field \in DOMAIN obj THEN obj[field] ELSE Undef

\* the absent document / absent req.user (null, undefined)
NoDoc == [none |-> TRUE]
IsDoc(d) == "none" \notin DOMAIN d

(* ------------------------------ domains ------------------------------- *)
UserNames == {"u1", "u2"}
Emails == {"a@x", "b@x"}
Roles == {"user", "admin"}
TTLs == 1..MaxTTL

VARIABLES
  now,      \* server clock, seconds (Math.floor(Date.now() / 1000))
  users,    \* the User collection: hex id -> document
  userSeq,  \* number of ObjectIds handed out for users so far
  issued,   \* the tokens clients hold: the token, the user it was handed
            \* out for, the time it was promised to last until, its issuer
  tasks,    \* the Task collection: hex id -> document
  taskSeq,  \* number of ObjectIds handed out for tasks so far
  reg,      \* the in-flight function-style registration requests
  last,     \* the outcome of the most recently completed request
  pw,       \* the password hasher: salts drawn, digests made, last comparison
  conn,     \* the store connection: isConnected, connect calls, the callers
  calls     \* the likeProfile / unlikeProfile calls in flight

vars == <<now, users, userSeq, issued, tasks, taskSeq, reg, last, pw, conn, calls>>

(* ---------------------------- Token Codec ----------------------------- *)
\* A token is the signed string; the model keeps what the codec can tell
\* about it: whether it parses and its signature verifies (sig), the one
\* payload key the gates read (key) with its value (sub), and exp.
NoToken == [sig |-> "absent", key |-> "none", sub |-> Undef, exp |-> 0]
Garbage == [sig |-> "malformed", key |-> "none", sub |-> Undef, exp |-> 0]

\* payload[field] of a decoded token
PGet(tok, field) == IF tok.key = field THEN tok.sub ELSE Undef

\* jwt.sign({[key]: value}, secret, {expiresIn}) at clock t: the payload is
\* JSON encoded (an ObjectId becomes its hex string), exp = iat + expiresIn.
jwtSign(key, value, ttl, t) ==
  [sig |-> "valid", key |-> key, sub |-> ToStr(value), exp |-> t + ttl]

\* jwt.verify with a strict comparison: a token is still accepted at the
\* second it expires
jwtVerify_strictlyAfter(tok, t) ==
  IF tok.sig = "malformed"
    THEN [ok |-> FALSE, name |-> "JsonWebTokenError", message |-> "jwt malformed", payload |-> NoToken]
  ELSE IF tok.sig # "valid"
    THEN [ok |-> FALSE, name |-> "JsonWebTokenError", message |-> "invalid signature", payload |-> NoToken]
  ELSE IF t > tok.exp
    THEN [ok |-> FALSE, name |-> "TokenExpiredError", message |-> "jwt expired", payload |-> NoToken]
  ELSE [ok |-> TRUE, name |-> "", message |-> "", payload |-> tok]

\* jwt.verify(token, secret) at clock t.  jsonwebtoken checks the structure,
\* then the signature, then exp (clockTimestamp >= exp fails; no caller
\* passes clockTolerance).
jwtVerify(tok, t) ==
  IF tok.sig = "malformed"
    THEN [ok |-> FALSE, name |-> "JsonWebTokenError", message |-> "jwt malformed", payload |-> NoToken]
  ELSE IF tok.sig # "valid"
    THEN [ok |-> FALSE, name |-> "JsonWebTokenError", message |-> "invalid signature", payload |-> NoToken]
  ELSE IF t >= tok.exp
    THEN [ok |-> FALSE, name |-> "TokenExpiredError", message |-> "jwt expired", payload |-> NoToken]
  ELSE [ok |-> TRUE, name |-> "", message |-> "", payload |-> tok]

\* utils/tokenUtils.js generateToken(payload, expiresIn), called as
\* generateToken({ userId: user._id })
generateTokenESM(userId, ttl, t) == jwtSign("userId", userId, ttl, t)

\* generateToken writing the subject under the key of the other variant
generateToken_userIdKey(user, ttl, t) ==
  jwtSign("userId",
          IF Truthy(Get(user, "_id")) THEN Get(user, "_id") ELSE Get(user, "id"),
          ttl, t)

\* utils/generateToken.js generateToken(user): payload.id = user._id || user.id
generateToken(user, ttl, t) ==
  jwtSign("id",
          IF Truthy(Get(user, "_id")) THEN Get(user, "_id") ELSE Get(user, "id"),
          ttl, t)

\* verifyToken calling jwt.decode (as decodeToken does) instead of
\* jwt.verify: neither the signature nor exp is checked
verifyToken_decodeOnly(tok, t) ==
  IF tok.sig = "malformed"
    THEN [ok |-> FALSE, name |-> "Error", message |-> "Invalid token", payload |-> NoToken]
  ELSE [ok |-> TRUE, name |-> "", message |-> "", payload |-> tok]

\* utils/generateToken.js verifyToken(token): rethrows with its own message
verifyToken(tok, t) ==
  LET r == jwtVerify(tok, t) IN
  IF r.ok THEN r
  ELSE IF r.name = "TokenExpiredError"
    THEN [r EXCEPT !.name = "Error", !.message = "Token has expired"]
  ELSE IF r.name = "JsonWebTokenError"
    THEN [r EXCEPT !.name = "Error", !.message = "Invalid token"]
  ELSE [r EXCEPT !.name = "Error", !.message = "Token verification failed"]

\* An Authorization header: absent, "Bearer <token>", or another scheme
NoHeader == [scheme |-> "absent", tok |-> NoToken]
Bearer(tok) == [scheme |-> "Bearer", tok |-> tok]

\* utils/generateToken.js extractTokenFromHeader(authHeader)
extractTokenFromHeader(h) ==
  IF h.scheme = "absent" \/ h.scheme # "Bearer" THEN NoToken ELSE h.tok

(* ----------------------- Credential Store Adapter --------------------- *)
\* what a query returns of a stored user: password is select: false
Selected(doc) == [f \in DOMAIN doc \ {"password"} |-> doc[f]]

\* User.findById(id): Mongoose casts the id; undefined/null match nothing.
findById(id) ==
  LET o == CastOid(id) IN
  IF o.t = "ObjectId" /\ o.v \in DOMAIN users THEN Selected(users[o.v]) ELSE NoDoc

(* ------------------------- Authentication Gate ------------------------ *)
\* What a gate's call of the codec returned or threw (ran: it was called)
NotVerified == [ran |-> FALSE, ok |-> FALSE, message |-> "", sub |-> Undef]
Verified(r, key) ==
  [ran |-> TRUE, ok |-> r.ok, message |-> r.message,
   sub |-> IF r.ok THEN PGet(r.payload, key) ELSE Undef]

\* The outcome of running a middleware: the response it sent (status 0 when
\* it sent none), whether it called next(), the req.user it left, the
\* number of store lookups / resolver calls it made, and what its token
\* verification gave.
Outcome(status, message, nxt, user, lookups) ==
  [status |-> status, message |-> message, next |-> nxt, user |-> user,
   lookups |-> lookups, resolver |-> 0, decoded |-> NotVerified]

InvalidAccessToken(msg) ==
  CASE msg = "jwt expired" -> "Invalid access token: jwt expired"
    [] msg = "jwt malformed" -> "Invalid access token: jwt malformed"
    [] msg = "invalid signature" -> "Invalid access token: invalid signature"
    [] OTHER -> "Invalid access token: store error"

\* verifyJWT without its `if (!token)` rejection: a request without a
\* credential is passed on
verifyJWT_passNoToken(req) ==
  LET fromHeader == IF req.header.scheme = "absent" THEN NoToken ELSE req.header.tok
      token == IF req.cookie.sig # "absent" THEN req.cookie ELSE fromHeader
      decodedToken == jwtVerify(token, now)
      user == findById(PGet(decodedToken.payload, "userId"))
      o == IF token.sig = "absent"
             THEN Outcome(0, "", TRUE, NoDoc, 0)
           ELSE IF ~decodedToken.ok
             THEN Outcome(401, InvalidAccessToken(decodedToken.message), FALSE, NoDoc, 0)
           ELSE IF ~req.dbUp
             THEN Outcome(401, InvalidAccessToken("store"), FALSE, NoDoc, 1)
           ELSE IF ~IsDoc(user)
             THEN Outcome(401, "Unauthorized access", FALSE, NoDoc, 1)
           ELSE Outcome(0, "", TRUE, user, 1)
  IN [o EXCEPT !.decoded = IF token.sig = "absent" THEN NotVerified
                           ELSE Verified(decodedToken, "userId")]

\* verifyJWT without its `if (!user)` rejection: req.user = null, next()
verifyJWT_noUserCheck(req) ==
  LET fromHeader == IF req.header.scheme = "absent" THEN NoToken ELSE req.header.tok
      token == IF req.cookie.sig # "absent" THEN req.cookie ELSE fromHeader
      decodedToken == jwtVerify(token, now)
      user == findById(PGet(decodedToken.payload, "userId"))
      o == IF token.sig = "absent"
             THEN Outcome(401, "Unauthorized access", FALSE, NoDoc, 0)
           ELSE IF ~decodedToken.ok
             THEN Outcome(401, InvalidAccessToken(decodedToken.message), FALSE, NoDoc, 0)
           ELSE IF ~req.dbUp
             THEN Outcome(401, InvalidAccessToken("store"), FALSE, NoDoc, 1)
           ELSE Outcome(0, "", TRUE, user, 1)
  IN [o EXCEPT !.decoded = IF token.sig = "absent" THEN NotVerified
                           ELSE Verified(decodedToken, "userId")]

\* middlewares/authMiddleware.js verifyJWT
verifyJWT(req) ==
  LET fromHeader == IF req.header.scheme = "absent" THEN NoToken
                    ELSE req.header.tok   \* header.replace('Bearer ', '')
      token == IF req.cookie.sig # "absent" THEN req.cookie ELSE fromHeader
      decodedToken == jwtVerify(token, now)
      user == findById(PGet(decodedToken.payload, "userId"))
      o == IF token.sig = "absent"
             THEN Outcome(401, "Unauthorized access", FALSE, NoDoc, 0)
           ELSE IF ~decodedToken.ok
             THEN Outcome(401, InvalidAccessToken(decodedToken.message), FALSE, NoDoc, 0)
           ELSE IF ~req.dbUp
             THEN Outcome(401, InvalidAccessToken("store"), FALSE, NoDoc, 1)
           ELSE IF ~IsDoc(user)
             THEN Outcome(401, "Unauthorized access", FALSE, NoDoc, 1)
           ELSE Outcome(0, "", TRUE, user, 1)
  IN [o EXCEPT !.decoded = IF token.sig = "absent" THEN NotVerified
                           ELSE Verified(decodedToken, "userId")]

\* String.prototype.includes on the error messages the gate can catch
\* (case sensitive: 'Invalid token' does not include 'invalid')
MsgIncludes(msg, word) ==
  \/ msg = "Token has expired" /\ word = "expired"
  \/ msg = "jwt expired" /\ word = "expired"
  \/ msg = "jwt malformed" /\ word = "malformed"
  \/ msg = "invalid signature" /\ word = "invalid"

\* authMiddleware consulting a list of logged-out / superseded tokens
authMiddleware_revoked(req) ==
  LET token == extractTokenFromHeader(req.header)
      decoded == verifyToken(token, now)
      user == findById(PGet(decoded.payload, "id"))
      o == IF token.sig = "absent"
             THEN Outcome(401, "Access token required", FALSE, NoDoc, 0)
           ELSE IF ~decoded.ok \/ ~req.dbUp
             THEN Outcome(401, "Authentication failed", FALSE, NoDoc,
                          IF decoded.ok THEN 1 ELSE 0)
           ELSE IF \E i \in issued : i.tok = token /\ i.since
             THEN Outcome(401, "Token has been revoked", FALSE, NoDoc, 0)
           ELSE IF ~IsDoc(user)
             THEN Outcome(401, "User no longer exists", FALSE, NoDoc, 1)
           ELSE Outcome(0, "", TRUE,
                        [id |-> user._id, name |-> Get(user, "name"),
                         email |-> user.email],
                        1)
  IN [o EXCEPT !.decoded = IF token.sig = "absent" THEN NotVerified
                           ELSE Verified(decoded, "id")]

\* middlewares/authMiddleware.js authMiddleware
authMiddleware(req) ==
  LET token == extractTokenFromHeader(req.header)
      decoded == verifyToken(token, now)
      user == findById(PGet(decoded.payload, "id"))
      errmsg == IF ~decoded.ok THEN decoded.message ELSE "store error"
      o == IF token.sig = "absent"
             THEN Outcome(401, "Access token required", FALSE, NoDoc, 0)
           ELSE IF ~decoded.ok \/ ~req.dbUp
             THEN Outcome(401,
                          IF MsgIncludes(errmsg, "expired") THEN "Token has expired"
                          ELSE IF MsgIncludes(errmsg, "invalid")
                                  \/ MsgIncludes(errmsg, "malformed")
                            THEN "Invalid token"
                          ELSE "Authentication failed",
                          FALSE, NoDoc, IF decoded.ok THEN 1 ELSE 0)
           ELSE IF ~IsDoc(user)
             THEN Outcome(401, "User no longer exists", FALSE, NoDoc, 1)
           ELSE Outcome(0, "", TRUE,
                        [id |-> user._id, name |-> Get(user, "name"),
                         email |-> user.email],
                        1)
  IN [o EXCEPT !.decoded = IF token.sig = "absent" THEN NotVerified
                           ELSE Verified(decoded, "id")]

\* optionalAuth with the catch block of authMiddleware: a failure while
\* verifying or looking up is answered 401
optionalAuth_rejects(req) ==
  LET token == extractTokenFromHeader(req.header)
      decoded == verifyToken(token, now)
      user == findById(PGet(decoded.payload, "id"))
      o == IF token.sig = "absent" THEN Outcome(0, "", TRUE, NoDoc, 0)
           ELSE IF ~decoded.ok THEN Outcome(401, "Authentication failed", FALSE, NoDoc, 0)
           ELSE IF ~req.dbUp THEN Outcome(401, "Authentication failed", FALSE, NoDoc, 1)
           ELSE IF ~IsDoc(user) THEN Outcome(0, "", TRUE, NoDoc, 1)
           ELSE Outcome(0, "", TRUE,
                        [id |-> user._id, name |-> Get(user, "name"),
                         email |-> user.email],
                        1)
  IN [o EXCEPT !.decoded = IF token.sig = "absent" THEN NotVerified
                           ELSE Verified(decoded, "id")]

\* middlewares/authMiddleware.js optionalAuth
optionalAuth(req) ==
  LET token == extractTokenFromHeader(req.header)
      decoded == verifyToken(token, now)
      user == findById(PGet(decoded.payload, "id"))
      o == IF token.sig = "absent" THEN Outcome(0, "", TRUE, NoDoc, 0)
           ELSE IF ~decoded.ok THEN Outcome(0, "", TRUE, NoDoc, 0)
           ELSE IF ~req.dbUp THEN Outcome(0, "", TRUE, NoDoc, 1)
           ELSE IF ~IsDoc(user) THEN Outcome(0, "", TRUE, NoDoc, 1)
           ELSE Outcome(0, "", TRUE,
                        [id |-> user._id, name |-> Get(user, "name"),
                         email |-> user.email],
                        1)
  IN [o EXCEPT !.decoded = IF token.sig = "absent" THEN NotVerified
                           ELSE Verified(decoded, "id")]

(* ------------------------- Authorization Gate ------------------------- *)
\* authorize with its two checks in the other order: a request without a
\* principal fails the role check first
authorize_roleFirst(allowedRoles, reqUser) ==
  IF "role" \notin DOMAIN reqUser \/ reqUser.role \notin allowedRoles
    THEN Outcome(403, "Insufficient permissions", FALSE, reqUser, 0)
  ELSE IF ~IsDoc(reqUser)
    THEN Outcome(401, "Authentication required", FALSE, reqUser, 0)
  ELSE Outcome(0, "", TRUE, reqUser, 0)

\* middlewares/authMiddleware.js authorize(...allowedRoles), run on a request
\* that carries reqUser
authorize(allowedRoles, reqUser) ==
  IF ~IsDoc(reqUser)
    THEN Outcome(401, "Authentication required", FALSE, reqUser, 0)
  ELSE IF "role" \notin DOMAIN reqUser \/ reqUser.role \notin allowedRoles
    THEN Outcome(403, "Insufficient permissions", FALSE, reqUser, 0)
  ELSE Outcome(0, "", TRUE, reqUser, 0)

\* The getResourceUserId resolver a route passes to checkResourceOwnership:
\* the owner of the addressed task.  It yields null for an unknown id and
\* throws when the store is down.
getResourceUserId(resourceId) ==
  IF resourceId \in DOMAIN tasks THEN tasks[resourceId].userId ELSE Null

\* checkResourceOwnership without the owner comparison
checkResourceOwnership_noCompare(req, reqUser) ==
  LET resourceUserId == getResourceUserId(req.resourceId) IN
  IF ~IsDoc(reqUser)
    THEN Outcome(401, "Authentication required", FALSE, reqUser, 0)
  ELSE IF ~req.dbUp \/ ~Truthy(resourceUserId)
    THEN [Outcome(500, "Error checking resource ownership", FALSE, reqUser, 0)
            EXCEPT !.resolver = 1]
  ELSE [Outcome(0, "", TRUE, reqUser, 0) EXCEPT !.resolver = 1]

\* middlewares/authMiddleware.js checkResourceOwnership(resourceParam,
\* getResourceUserId), run on a request that carries reqUser
checkResourceOwnership(req, reqUser) ==
  LET resourceUserId == getResourceUserId(req.resourceId) IN
  IF ~IsDoc(reqUser)
    THEN Outcome(401, "Authentication required", FALSE, reqUser, 0)
  ELSE IF ~req.dbUp \/ ~Truthy(resourceUserId)   \* resolver throws / null.toString()
    THEN [Outcome(500, "Error checking resource ownership", FALSE, reqUser, 0)
            EXCEPT !.resolver = 1]
  ELSE IF ToStr(resourceUserId) # ToStr(reqUser.id)
    THEN [Outcome(403, "Access denied to this resource", FALSE, reqUser, 0)
            EXCEPT !.resolver = 1]
  ELSE [Outcome(0, "", TRUE, reqUser, 0) EXCEPT !.resolver = 1]

(* ------------------------------ stores -------------------------------- *)
\* ObjectIds are never reused: users get the hex ids 1, 2, ... and tasks
\* the hex ids TaskBase+1, TaskBase+2, ...
TaskBase == 100
TaskIds == (TaskBase + 1)..(TaskBase + MaxTasks)

Statuses == {"pending", "in-progress", "completed"}

\* models/userModel.js: the unique indexes on userName and email
DuplicateKey(doc) ==
  \E n \in DOMAIN users : users[n].email = doc.email \/ users[n].userName = doc.userName

\* models/userModel.js: the required fields of a user document
UserValid(doc) ==
  /\ "userName" \in DOMAIN doc /\ doc.userName \in UserNames
  /\ "email" \in DOMAIN doc /\ doc.email \in Emails
  /\ "fullName" \in DOMAIN doc /\ doc.fullName # ""

\* new User(userData).save(): "ok", "validation" or "duplicate" (code 11000)
SaveUser(doc) ==
  IF ~UserValid(doc) THEN "validation"
  ELSE IF DuplicateKey(doc) THEN "duplicate"
  ELSE "ok"

Remove(f, k) == [x \in DOMAIN f \ {k} |-> f[x]]
Put(f, k, v) == [x \in DOMAIN f \cup {k} |-> IF x = k THEN v ELSE f[x]]

(* -------------------- function-style task repository ------------------ *)
\* repositories/taskRepository.js updateTask(taskId, taskData):
\* Task.findByIdAndUpdate with runValidators.  The result is the store
\* afterwards, the returned document and whether it threw.
repoUpdateTask(taskId, taskData) ==
  IF taskData.status \notin Statuses
    THEN [tasks |-> tasks, doc |-> NoDoc, threw |-> TRUE]
  ELSE IF taskId \notin DOMAIN tasks
    THEN [tasks |-> tasks, doc |-> NoDoc, threw |-> FALSE]
  ELSE LET d == [tasks[taskId] EXCEPT !.title = taskData.title,
                                      !.description = taskData.description,
                                      !.status = taskData.status]
       IN [tasks |-> Put(tasks, taskId, d), doc |-> d, threw |-> FALSE]

\* repositories/taskRepository.js deleteTask(taskId): Task.findByIdAndDelete.
\* The ids it may delete for the argument it is given: the task with that
\* _id; for undefined the filter is { _id: undefined }, which Mongoose sends
\* either as a filter that matches nothing or as the empty filter (any one
\* document), depending on the build.  0 stands for "nothing deleted".
repoDeleteTargets(idArg) ==
  IF idArg.t = "undefined" THEN {0} \cup DOMAIN tasks
  ELSE IF CastOid(idArg).t = "ObjectId" /\ CastOid(idArg).v \in DOMAIN tasks
    THEN {CastOid(idArg).v}
  ELSE {0}

\* repositories/taskRepository.js getTask(taskId):
\* Task.findById(taskId).populate('userId', 'userName'): userId is replaced
\* by the owner's document, or by null when the owner is no longer stored
repoGetTask(taskId) ==
  IF taskId \notin DOMAIN tasks THEN NoDoc
  ELSE LET owner == findById(tasks[taskId].userId) IN
       [tasks[taskId] EXCEPT !.userId =
          IF IsDoc(owner) THEN [t |-> "document", v |-> owner._id.v] ELSE Null]

(* --------------------- function-style task service -------------------- *)
\* services/taskService.js getTask(userId, taskId): the populated userId is
\* a document, whose toString() is not the hex string of an id; on null,
\* toString throws a TypeError
getTask(userId, taskId) ==
  LET task == repoGetTask(taskId) IN
  IF ~IsDoc(task) THEN [ok |-> FALSE, error |-> "Error fetching task: Task not found"]
  ELSE IF task.userId.t = "null"
    THEN [ok |-> FALSE, error |-> "Error fetching task: Cannot read properties of null"]
  ELSE IF ToStr(task.userId) # userId
    THEN [ok |-> FALSE,
          error |-> "Error fetching task: Unauthorized: You can only access your own tasks"]
  ELSE [ok |-> TRUE, error |-> ""]

\* services/taskService.js updateTask(userId, taskId, taskData): the update
\* is written first, the owner is compared afterwards.
updateTask(userId, taskId, taskData) ==
  LET r == repoUpdateTask(taskId, taskData) IN
  IF r.threw THEN [tasks |-> r.tasks, ok |-> FALSE, error |-> "Error updating task: validation"]
  ELSE IF ~IsDoc(r.doc)
    THEN [tasks |-> r.tasks, ok |-> FALSE, error |-> "Error updating task: Task not found"]
  ELSE IF ToStr(r.doc.userId) # userId
    THEN [tasks |-> r.tasks, ok |-> FALSE,
          error |-> "Error updating task: Unauthorized: You can only update your own tasks"]
  ELSE [tasks |-> r.tasks, ok |-> TRUE, error |-> ""]

\* services/taskService.js deleteTask(userId, taskId): calls the repository
\* as deleteTask(userId, taskId), so the repository's only parameter
\* receives userId.  target is the id the repository deleted (0: none).
deleteTask(userId, taskId, target) ==
  IF target = 0 THEN [tasks |-> tasks, ok |-> FALSE, error |-> "Task not found"]
  ELSE IF ToStr(tasks[target].userId) # userId
    THEN [tasks |-> Remove(tasks, target), ok |-> FALSE,
          error |-> "Unauthorized: You can only delete your own tasks"]
  ELSE [tasks |-> Remove(tasks, target), ok |-> TRUE, error |-> ""]

(* --------------------------- password hasher -------------------------- *)
MaxHashes == 2
MaxCallers == 4

\* A plaintext password as bcrypt sees it: head is its first 72 bytes (as
\* UTF-8, with the terminating NUL bcryptjs appends), tail is whatever
\* follows them; tail is empty for every password that fits.  "L72" is a
\* head that fills the 72 bytes.  validatePasswordStrength admits up to 128
\* characters and the schemas set no maximum, so tails occur.
Plaintexts ==
  {[head |-> h, tail |-> ""] : h \in {"Passw0rd!", "passw0rd!", "L72"}}
    \cup {[head |-> "L72", tail |-> t] : t \in {"x", "y"}}

\* bcrypt.hash(password, salt): the digest string carries the cost, the
\* salt and the hash of the key under that salt; the key schedule of bcrypt
\* reads 72 bytes of the password (its head) and no more
bcryptHash(p, salt) == [cost |-> 12, salt |-> salt, hash |-> <<salt, p.head>>]

\* bcrypt.compare(password, digest): rehash under the digest's salt and
\* compare; false on a mismatch, no exception for string arguments
bcryptCompare(p, d) == bcryptHash(p, d.salt) = d

NoCmp == [ran |-> FALSE, plain |-> [head |-> "", tail |-> ""], of |-> 0,
          result |-> FALSE, threw |-> FALSE]
PwInit == [saltSeq |-> 0, made |-> << >>, cmp |-> NoCmp]

\* bcrypt.genSalt(12) then bcrypt.hash: genSalt reads 16 bytes of the
\* system's random source, the model hands out a salt not used before.
HashWith(password) ==
  /\ pw.saltSeq < MaxHashes
  /\ pw' = [pw EXCEPT !.saltSeq = pw.saltSeq + 1,
                      !.made = Append(pw.made, [plain |-> password,
                                                digest |-> bcryptHash(password, pw.saltSeq + 1)]),
                      !.cmp = NoCmp]
  /\ UNCHANGED <<now, users, userSeq, issued, tasks, taskSeq, reg, last, conn, calls>>

CompareWith(password, k) ==
  /\ k \in DOMAIN pw.made
  /\ pw' = [pw EXCEPT !.cmp = [ran |-> TRUE, plain |-> password, of |-> k,
                               result |-> bcryptCompare(password, pw.made[k].digest),
                               threw |-> FALSE]]
  /\ UNCHANGED <<now, users, userSeq, issued, tasks, taskSeq, reg, last, conn, calls>>

\* utils/passwordUtils PasswordUtils.hashPassword(password)
hashPassword(password) == HashWith(password)

\* models/User.js pre('save'): a new or modified password is hashed
preSave(password) == HashWith(password)

\* utils/passwordUtils PasswordUtils.comparePasswords(password, hashedPassword)
comparePasswords(password, k) == CompareWith(password, k)

\* models/User.js comparePassword(candidatePassword) of the document whose
\* password is digest k
comparePassword(candidatePassword, k) == CompareWith(candidatePassword, k)

\* the document save() stores for userData, whose password the service has
\* replaced by its digest (hashed under a salt of its own); isAdmin defaults
\* to 'user'
NewUserDoc(n, userData) ==
  [_id |-> Oid(n), userName |-> userData.userName, email |-> userData.email,
   password |-> bcryptHash(userData.password, n),
   fullName |-> userData.fullName,
   isAdmin |-> IF "isAdmin" \in DOMAIN userData THEN userData.isAdmin ELSE "user"]

(* -------------------------- store connection -------------------------- *)
\* DB/connectDB.js: the module's isConnected flag, the number of times
\* mongoose.connect has been invoked, whether the process has exited, and
\* where each caller of connectDB is
Callers == 1..MaxCallers
ConnInit == [isConnected |-> FALSE, connects |-> 0, exited |-> FALSE,
             pc |-> [c \in Callers |-> "idle"]]

\* connectDB up to its first await: return when isConnected, else invoke
\* mongoose.connect
connectDB(c) ==
  /\ ~conn.exited
  /\ conn.pc[c] = "idle"
  /\ IF conn.isConnected
       THEN conn' = [conn EXCEPT !.pc[c] = "returned"]
       ELSE conn' = [conn EXCEPT !.pc[c] = "connecting", !.connects = conn.connects + 1]
  /\ UNCHANGED <<now, users, userSeq, issued, tasks, taskSeq, reg, last, pw, calls>>

\* mongoose.connect resolves: isConnected = true
connectResolved(c) ==
  /\ ~conn.exited
  /\ conn.pc[c] = "connecting"
  /\ conn' = [conn EXCEPT !.pc[c] = "returned", !.isConnected = TRUE]
  /\ UNCHANGED <<now, users, userSeq, issued, tasks, taskSeq, reg, last, pw, calls>>

\* mongoose.connect rejects: the catch block calls process.exit(1)
connectRejected(c) ==
  /\ ~conn.exited
  /\ conn.pc[c] = "connecting"
  /\ conn' = [conn EXCEPT !.exited = TRUE]
  /\ UNCHANGED <<now, users, userSeq, issued, tasks, taskSeq, reg, last, pw, calls>>

\* the caller goes on and may call connectDB again
connectReturn(c) ==
  /\ ~conn.exited
  /\ conn.pc[c] = "returned"
  /\ conn' = [conn EXCEPT !.pc[c] = "idle"]
  /\ UNCHANGED <<now, users, userSeq, issued, tasks, taskSeq, reg, last, pw, calls>>

(* ----------------------------- requests ------------------------------- *)
NoBody == [title |-> "", description |-> "", status |-> ""]
NoReq == [cookie |-> NoToken, header |-> NoHeader, dbUp |-> TRUE,
          resourceId |-> 0, body |-> NoBody]

\* What a client can present: a token it was handed, a copy of one with
\* an altered byte (the signature no longer verifies), or a string that is
\* no JWT at all.
Held == {i.tok : i \in issued}
Tampered(tok) == [tok EXCEPT !.sig = "tampered"]
Presentable == Held \cup {Tampered(tok) : tok \in Held} \cup {Garbage}
Cookies == {NoToken} \cup Presentable
Headers == {NoHeader, [scheme |-> "Basic", tok |-> Garbage]} \cup {Bearer(tok) : tok \in Presentable}

Bodies == [title : {"", "t1"}, description : {"", "d0"}, status : {"", "completed", "bogus"}]

\* the function-style registration requests in flight
NumProcs == 2
Procs == 1..NumProcs
NoPlain == [head |-> "", tail |-> ""]
RegBodies == [userName : UserNames, email : Emails \cup {""},
              password : {[head |-> "Passw0rd!", tail |-> ""]}]
RegIdle == [pc |-> "idle", body |-> [userName |-> "", email |-> "", password |-> NoPlain],
            status |-> 0, message |-> ""]

\* no likeProfile / unlikeProfile call is running in this slot
NoCall == [pc |-> "idle", op |-> "", likerId |-> Undef, profileId |-> Undef]

\* no request is being answered
Idle == [route |-> "none", gate |-> "none", guard |-> "none", req |-> NoReq,
         status |-> 0, message |-> "", gateNext |-> FALSE, handler |-> FALSE,
         user |-> NoDoc, lookups |-> 0, resolver |-> 0, decoded |-> NotVerified]

Init ==
  /\ now = 0
  /\ users = << >>
  /\ userSeq = 0
  /\ issued = {}
  /\ tasks = << >>
  /\ taskSeq = 0
  /\ reg = [p \in Procs |-> RegIdle]
  /\ last = Idle
  /\ pw = PwInit
  /\ conn = ConnInit
  /\ calls = [p \in Procs |-> NoCall]

\* the server clock advances
Tick ==
  /\ last = Idle
  /\ now < MaxTime
  /\ now' = now + 1
  /\ UNCHANGED <<users, userSeq, issued, tasks, taskSeq, reg, last, pw, conn, calls>>

\* the response has been sent; the request context (req.user) is discarded
endRequest ==
  /\ last # Idle
  /\ last' = Idle
  /\ UNCHANGED <<now, users, userSeq, issued, tasks, taskSeq, reg, pw, conn, calls>>

(* ------------------------ user service (class) ------------------------ *)
\* a token as the client received it: for user n, at clock now, for ttl
Handed(tok, n, ttl, by) ==
  [tok |-> tok, to |-> n, until |-> now + ttl, by |-> by, since |-> FALSE]

\* the same tokens, those of user n marked: since they were handed out the
\* user has logged out, logged in again or changed the profile
Since(n) == {IF i.to = n THEN [i EXCEPT !.since = TRUE] ELSE i : i \in issued}

\* the record of a call of the user service: what it returned (ok, with the
\* user it returned) or the message of the error it threw
Returned(route, req, ok, message, user) ==
  [route |-> route, gate |-> "none", guard |-> "none", req |-> req,
   status |-> 0, message |-> message, gateNext |-> FALSE, handler |-> ok,
   user |-> user, lookups |-> 0, resolver |-> 0, decoded |-> NotVerified]

\* the inputs of a call of the user service
Call(userData, notifOk, emailOk) ==
  [cookie |-> NoToken, header |-> NoHeader, dbUp |-> TRUE, resourceId |-> 0,
   body |-> NoBody, userData |-> userData, notifOk |-> notifOk, emailOk |-> emailOk]

\* services/userService.js UserService.registerUser(userData): lookups by
\* userName and email, hash, create, welcome notification, token, welcome
\* email.  notifOk: whether Notification.createNotification succeeds (it
\* throws otherwise); emailOk: whether the mail is sent (sendEmail returns
\* false otherwise); keep: whether the client holds on to the token.
registerUser(userData, ttl, notifOk, emailOk, keep) ==
  LET n == userSeq + 1
      req == Call(userData, notifOk, emailOk)
      saved == SaveUser(userData)
      newUser == NewUserDoc(n, userData)
  IN
  /\ last = Idle
  /\ userSeq < MaxUsers
  /\ IF DuplicateKey(userData)
       THEN /\ last' = Returned("UserService.registerUser", req, FALSE,
                                "Error registering user: User already exists", NoDoc)
            /\ UNCHANGED <<users, userSeq, issued>>
     ELSE IF saved # "ok"
       THEN /\ last' = Returned("UserService.registerUser", req, FALSE,
                                "Error registering user: Error creating user", NoDoc)
            /\ UNCHANGED <<users, userSeq, issued>>
     ELSE /\ users' = Put(users, n, newUser)
          /\ userSeq' = n
          /\ IF ~notifOk
               THEN /\ last' = Returned("UserService.registerUser", req, FALSE,
                                        "Error registering user: Error creating notification",
                                        NoDoc)
                    /\ issued' = issued
             ELSE /\ last' = Returned("UserService.registerUser", req, TRUE,
                                      "User registered successfully", newUser)
                  /\ issued' = IF keep /\ Cardinality(issued) < MaxTokens
                                 THEN issued \cup {Handed(generateTokenESM(Oid(n), ttl, now),
                                                          n, ttl, "tokenUtils")}
                                 ELSE issued
  /\ UNCHANGED <<now, tasks, taskSeq, reg, pw, conn, calls>>

\* repositories/userRepository.js UserRepository.loginUser(email):
\* User.findOne({ email }).select('+password')
loginUser(email) ==
  IF \E n \in DOMAIN users : users[n].email = email
    THEN users[CHOOSE n \in DOMAIN users : users[n].email = email]
    ELSE NoDoc

\* services/userService.js UserService.login(userData): the catch block
\* replaces every error by one message
login(email, password, ttl, keep) ==
  LET user == loginUser(email)
      req == Call([email |-> email, password |-> password], TRUE, TRUE)
      isPasswordValid == IsDoc(user) /\ bcryptCompare(password, user.password)
  IN
  /\ last = Idle
  /\ IF ~isPasswordValid
       THEN /\ last' = Returned("UserService.login", req, FALSE,
                                "Error Logging in User. Please try again.", NoDoc)
            /\ issued' = issued
     ELSE /\ last' = Returned("UserService.login", req, TRUE,
                              "User loggedin Successfully", user)
          /\ issued' = IF keep /\ Cardinality(issued) < MaxTokens
                         THEN issued \cup {Handed(generateTokenESM(user._id, ttl, now),
                                                  user._id.v, ttl, "tokenUtils")}
                         ELSE issued
  /\ UNCHANGED <<now, users, userSeq, tasks, taskSeq, reg, pw, conn, calls>>

\* services/userService.js UserService.getprofile(userId)
getprofile(userId) ==
  LET user == findById(userId)
      req == Call([userId |-> userId], TRUE, TRUE)
  IN
  /\ last = Idle
  /\ last' = IF IsDoc(user)
               THEN Returned("UserService.getprofile", req, TRUE, "", user)
             ELSE Returned("UserService.getprofile", req, FALSE,
                           "Error fetching user profile: User not found", NoDoc)
  /\ UNCHANGED <<now, users, userSeq, issued, tasks, taskSeq, reg, pw, conn, calls>>

\* utils/generateToken.js generateToken(user) applied to a stored user (a
\* login); keep: whether the client holds on to the token it is returned
issueToken(n, ttl, keep) ==
  /\ last = Idle
  /\ n \in DOMAIN users
  /\ keep => Cardinality(issued) < MaxTokens
  /\ issued' = IF keep
                 THEN issued \cup {Handed(generateToken(users[n], ttl, now), n, ttl,
                                          "generateToken")}
                 ELSE Since(n)
  /\ UNCHANGED <<now, users, userSeq, tasks, taskSeq, reg, last, pw, conn, calls>>

\* controllers/userController.js UserController.logout: answers 200 and
\* keeps no token state; removed: whether the client then drops the token
logout(i, removed) ==
  /\ last = Idle
  /\ i \in issued
  /\ issued' = IF removed THEN issued \ {i} ELSE Since(i.to)
  /\ UNCHANGED <<now, users, userSeq, tasks, taskSeq, reg, last, pw, conn, calls>>

\* services/userService.js UserService.updateProfile(userId, profileData)
\* with profileData = { fullName }
updateProfile(userId, fullName) ==
  /\ last = Idle
  /\ userId \in DOMAIN users
  /\ users[userId].fullName # fullName
  /\ users' = [users EXCEPT ![userId].fullName = fullName]
  /\ issued' = Since(userId)
  /\ UNCHANGED <<now, userSeq, tasks, taskSeq, reg, last, pw, conn, calls>>

\* services/userService.js UserService.deleteUserAsAdmin(adminId, userId):
\* the user is deleted by userRepository.deleteUser before the (failing)
\* e-mail step
deleteUserAsAdmin(adminId, userId) ==
  /\ last = Idle
  /\ adminId \in DOMAIN users /\ users[adminId].isAdmin = "admin"
  /\ adminId # userId
  /\ userId \in DOMAIN users
  /\ users' = Remove(users, userId)
  /\ UNCHANGED <<now, userSeq, issued, tasks, taskSeq, reg, last, pw, conn, calls>>

(* --------------------------- routes (ESM) ----------------------------- *)
\* the record of an answered request: the response, whether the gate called
\* next(), whether the resource handler was reached, and what the
\* middlewares left on the request
Result(route, gate, guard, req, g, gateNext, status, message, handler) ==
  [route |-> route, gate |-> gate, guard |-> guard, req |-> req,
   status |-> status, message |-> message,
   gateNext |-> gateNext,
   handler |-> handler,
   user |-> g.user, lookups |-> g.lookups, resolver |-> g.resolver,
   decoded |-> g.decoded]

\* routes/userRoute.js GET /profile : verifyJWT, then
\* controllers/taskController.js getUserProfile
getUserProfile(cookie, header, dbUp) ==
  LET req == [cookie |-> cookie, header |-> header, dbUp |-> dbUp,
              resourceId |-> 0, body |-> NoBody]
      g == verifyJWT(req)
      userId == Get(g.user, "userId")
      found == IsDoc(findById(userId))
  IN
  /\ last = Idle
  /\ last' = IF ~g.next
               THEN Result("GET /users/profile", "verifyJWT", "none", req, g, g.next,
                           g.status, g.message, FALSE)
             ELSE Result("GET /users/profile", "verifyJWT", "none", req, g, g.next,
                         IF found THEN 200 ELSE 500,
                         IF found THEN "User profile fetched" ELSE "Internal server error",
                         TRUE)
  /\ UNCHANGED <<now, users, userSeq, issued, tasks, taskSeq, reg, pw, conn, calls>>

\* routes/taskRoute.js GET /:taskId : verifyJWT, then
\* controllers/taskController.js getTask
fetchTask(cookie, header, dbUp, taskId) ==
  LET req == [cookie |-> cookie, header |-> header, dbUp |-> dbUp,
              resourceId |-> taskId, body |-> NoBody]
      g == verifyJWT(req)
      userId == Get(g.user, "userId")
      r == getTask(userId, taskId)
  IN
  /\ last = Idle
  /\ last' = IF ~g.next
               THEN Result("GET /tasks/:taskId", "verifyJWT", "none", req, g, g.next,
                           g.status, g.message, FALSE)
             ELSE Result("GET /tasks/:taskId", "verifyJWT", "none", req, g, g.next,
                         IF r.ok THEN 200 ELSE 500,
                         IF r.ok THEN "Task fetched successfully" ELSE r.error,
                         TRUE)
  /\ UNCHANGED <<now, users, userSeq, issued, tasks, taskSeq, reg, pw, conn, calls>>

\* routes/taskRoute.js PUT /:taskId : verifyJWT, then
\* controllers/taskController.js updateTask
putTask(cookie, header, dbUp, taskId, body) ==
  LET req == [cookie |-> cookie, header |-> header, dbUp |-> dbUp,
              resourceId |-> taskId, body |-> body]
      g == verifyJWT(req)
      userId == Get(g.user, "userId")
      r == updateTask(userId, taskId, body)
  IN
  /\ last = Idle
  /\ IF ~g.next
       THEN /\ last' = Result("PUT /tasks/:taskId", "verifyJWT", "none", req, g, g.next,
                              g.status, g.message, FALSE)
            /\ tasks' = tasks
     ELSE IF body.title = "" \/ body.description = "" \/ body.status = ""
       THEN /\ last' = Result("PUT /tasks/:taskId", "verifyJWT", "none", req, g, g.next,
                              400, "All fields are required", TRUE)
            /\ tasks' = tasks
     ELSE /\ last' = Result("PUT /tasks/:taskId", "verifyJWT", "none", req, g, g.next,
                            IF r.ok THEN 200 ELSE 500,
                            IF r.ok THEN "Task updated successfully" ELSE r.error,
                            TRUE)
          /\ tasks' = r.tasks
  /\ UNCHANGED <<now, users, userSeq, issued, taskSeq, reg, pw, conn, calls>>

\* routes/taskRoute.js DELETE /:taskId : verifyJWT, then
\* controllers/taskController.js deleteTask
delTask(cookie, header, dbUp, taskId) ==
  LET req == [cookie |-> cookie, header |-> header, dbUp |-> dbUp,
              resourceId |-> taskId, body |-> NoBody]
      g == verifyJWT(req)
      userId == Get(g.user, "userId")
  IN
  /\ last = Idle
  /\ IF ~g.next
       THEN /\ last' = Result("DELETE /tasks/:taskId", "verifyJWT", "none", req, g, g.next,
                              g.status, g.message, FALSE)
            /\ tasks' = tasks
     ELSE \E target \in repoDeleteTargets(userId) :
            LET r == deleteTask(userId, taskId, target) IN
            /\ last' = Result("DELETE /tasks/:taskId", "verifyJWT", "none", req, g, g.next,
                              IF r.ok THEN 200 ELSE 500,
                              IF r.ok THEN "Task deleted successfully" ELSE r.error,
                              TRUE)
            /\ tasks' = r.tasks
  /\ UNCHANGED <<now, users, userSeq, issued, taskSeq, reg, pw, conn, calls>>

(* ---------------------- guarded routes (CommonJS) --------------------- *)
Gates == {"authMiddleware", "optionalAuth", "none"}

RunGate(gate, req) ==
  CASE gate = "authMiddleware" -> authMiddleware(req)
    [] gate = "optionalAuth" -> optionalAuth(req)
    [] OTHER -> Outcome(0, "", TRUE, NoDoc, 0)

RunGuard(guard, req, reqUser) ==
  CASE guard = "authorize" -> authorize({"admin"}, reqUser)
    [] guard = "checkResourceOwnership" -> checkResourceOwnership(req, reqUser)
    [] OTHER -> Outcome(0, "", TRUE, reqUser, 0)

\* a route mounted as  gate, guard, handler : each middleware runs only when
\* the one before it called next(); the handler answers 200
guarded(gate, guard, cookie, header, dbUp, resourceId) ==
  LET req == [cookie |-> cookie, header |-> header, dbUp |-> dbUp,
              resourceId |-> resourceId, body |-> NoBody]
      g == RunGate(gate, req)
      a == RunGuard(guard, req, g.user)
      o == [a EXCEPT !.lookups = g.lookups, !.decoded = g.decoded]
  IN
  /\ last = Idle
  /\ gate # "none" \/ guard # "none"
  /\ last' = IF ~g.next
               THEN Result("guarded", gate, guard, req, g, FALSE, g.status, g.message, FALSE)
             ELSE IF ~a.next
               THEN Result("guarded", gate, guard, req, o, TRUE, a.status, a.message, FALSE)
             ELSE Result("guarded", gate, guard, req, o, TRUE, 200, "", TRUE)
  /\ UNCHANGED <<now, users, userSeq, issued, tasks, taskSeq, reg, pw, conn, calls>>

\* POST /tasks of the CommonJS variant: authMiddleware, then
\* TaskService.createTask(taskData, req.user.id) -> TaskRepository.create
createTask(header, dbUp) ==
  LET req == [cookie |-> NoToken, header |-> header, dbUp |-> dbUp,
              resourceId |-> 0, body |-> NoBody]
      g == authMiddleware(req)
      id == TaskBase + taskSeq + 1
  IN
  /\ last = Idle
  /\ taskSeq < MaxTasks
  /\ g.next
  /\ tasks' = Put(tasks, id, [_id |-> Oid(id), userId |-> CastOid(g.user.id),
                              title |-> "t0", description |-> "d0",
                              status |-> "pending"])
  /\ taskSeq' = taskSeq + 1
  /\ last' = Result("POST /tasks", "authMiddleware", "none", req, g, g.next, 201, "", TRUE)
  /\ UNCHANGED <<now, users, userSeq, issued, reg, pw, conn, calls>>

(* ------------------ function-style registration (ESM) ----------------- *)
\* controllers/taskController.js registerUser, up to the first await
regReceive(p, body) ==
  /\ reg[p].pc = "idle"
  /\ reg' = [reg EXCEPT ![p] =
       IF body.userName = "" \/ body.email = "" \/ body.password = NoPlain
         THEN [pc |-> "done", body |-> body, status |-> 400,
               message |-> "All fields are required"]
         ELSE [pc |-> "hash", body |-> body, status |-> 0, message |-> ""]]
  /\ UNCHANGED <<now, users, userSeq, issued, tasks, taskSeq, last, pw, conn, calls>>

\* services/userService.js createUser: await hashPassword(userData.password)
regHash(p) ==
  /\ reg[p].pc = "hash"
  /\ reg' = [reg EXCEPT ![p].pc = "create"]
  /\ UNCHANGED <<now, users, userSeq, issued, tasks, taskSeq, last, pw, conn, calls>>

\* the message the repository's and the service's catch blocks give the
\* controller for a failed save
createUserError(saved) ==
  IF saved = "duplicate" THEN "Error creating user: Email already exists"
  ELSE "Error creating user: Error creating user"

\* repositories createUser (new User(userData).save()), then the token and
\* the 201 response, or the controller's catch
regCreate(p, ttl) ==
  LET userData == [userName |-> reg[p].body.userName, email |-> reg[p].body.email,
                   password |-> reg[p].body.password]
      saved == SaveUser(userData)
  IN
  /\ reg[p].pc = "create"
  /\ IF saved = "ok" /\ userSeq < MaxUsers
       THEN /\ users' = Put(users, userSeq + 1, NewUserDoc(userSeq + 1, userData))
            /\ userSeq' = userSeq + 1
            /\ issued' = IF Cardinality(issued) < MaxTokens
                           THEN issued \cup {Handed(generateTokenESM(Oid(userSeq + 1), ttl, now),
                                                    userSeq + 1, ttl, "tokenUtils")}
                           ELSE issued
            /\ reg' = [reg EXCEPT ![p].pc = "done", ![p].status = 201,
                                  ![p].message = "User registered successfully"]
       ELSE /\ reg' = [reg EXCEPT ![p].pc = "done", ![p].status = 500,
                                  ![p].message = createUserError(saved)]
            /\ UNCHANGED <<users, userSeq, issued>>
  /\ UNCHANGED <<now, tasks, taskSeq, last, pw, conn, calls>>

(* ---------------------- function-style login (ESM) -------------------- *)
\* repositories/userRepository.js getUserByEmail(email):
\* User.findOne({ email }), without .select('+password')
getUserByEmail(email) ==
  IF \E n \in DOMAIN users : users[n].email = email
    THEN Selected(users[CHOOSE n \in DOMAIN users : users[n].email = email])
    ELSE NoDoc


\* services/userService.js login(userData): every error thrown inside the
\* try block, its own 'User not found' and 'Invalid credentials' included,
\* is caught and thrown again with the prefix 'Error logging in: '; absent
\* is what comparePassword(password, undefined) does: bcrypt.compare rejects
\* a digest that is no string ("throws"), a wrapper may turn that into false
serviceLogin(userData, absent) ==
  LET user == getUserByEmail(userData.email)
      thrown ==
        IF ~IsDoc(user) THEN "User not found"
        ELSE IF "password" \notin DOMAIN user
          THEN IF absent = "throws" THEN "Illegal arguments: string, undefined"
               ELSE "Invalid credentials"
        ELSE IF ~bcryptCompare(userData.password, user.password)
          THEN "Invalid credentials"
        ELSE ""
  IN IF thrown = "" THEN [ok |-> TRUE, error |-> "", user |-> user]
     ELSE [ok |-> FALSE, error |-> "Error logging in: " \o thrown, user |-> NoDoc]

LoginBodies == [email : Emails \cup {""},
                password : {NoPlain, [head |-> "Passw0rd!", tail |-> ""],
                            [head |-> "passw0rd!", tail |-> ""]}]

\* controllers/taskController.js loginUser (POST /users/login): 400 without
\* email or password, 200 with the service's result, 401 when the caught
\* message is exactly 'User not found' or 'Invalid credentials', else 500
loginUserController(body, ttl, absent) ==
  LET req == Call(body, TRUE, TRUE)
      r == serviceLogin(body, absent)
      answer(status, message, handler) ==
        [Returned("POST /users/login", req, handler, message, NoDoc)
           EXCEPT !.status = status]
  IN
  /\ last = Idle
  /\ IF body.email = "" \/ body.password = NoPlain
       THEN /\ last' = answer(400, "Email and password are required", FALSE)
            /\ issued' = issued
     ELSE IF r.ok
       THEN /\ last' = answer(200, "Login successful", TRUE)
            /\ issued' = IF Cardinality(issued) < MaxTokens
                           THEN issued \cup {Handed(generateTokenESM(r.user._id, ttl, now),
                                                    r.user._id.v, ttl, "tokenUtils")}
                           ELSE issued
     ELSE /\ last' = answer(IF r.error \in {"User not found", "Invalid credentials"}
                              THEN 401 ELSE 500,
                            IF r.error \in {"User not found", "Invalid credentials"}
                              THEN r.error ELSE "Internal server error",
                            TRUE)
          /\ issued' = issued
  /\ UNCHANGED <<now, users, userSeq, tasks, taskSeq, reg, pw, conn, calls>>

(* --------------------------- error handler --------------------------- *)
\* An error object as the handler reads it: name, code (0: none, 1: a code
\* other than 11000), statusCode (0: not set), whether it has a message,
\* and the fields the branches dereference (errors, keyValue).
Err(name, code, message) ==
  [name |-> name, code |-> code, statusCode |-> 0, message |-> message,
   errors |-> name = "ValidationError", keyValue |-> code = 11000]

\* middlewares/globalErrorHandler.js createError(message, statusCode, code)
createError(message, statusCode, code) ==
  [Err("Error", code, message) EXCEPT !.statusCode = statusCode]

\* the errors that reach the handler: those Mongoose, the MongoDB driver
\* and jsonwebtoken construct, plain Errors, and the results of createError;
\* a layer in between may have set statusCode on any of them
StatusCodes == {400, 403, 404, 409, 422}
Thrown ==
  {Err("ValidationError", 0, "m"), Err("CastError", 0, "m"),
   Err("MongoServerError", 11000, "m"), Err("MongoServerError", 1, "m"),
   Err("JsonWebTokenError", 0, "m"), Err("TokenExpiredError", 0, "m"),
   Err("NotBeforeError", 0, "m"), Err("Error", 0, "m"), Err("Error", 0, ""),
   Err("TypeError", 0, "m")}
    \cup {createError(m, sc, c) : m \in {"m", ""}, sc \in StatusCodes \cup {500},
                                 c \in {0, 1}}
Errors == Thrown \cup {[e EXCEPT !.statusCode = sc] : e \in Thrown, sc \in StatusCodes}

\* globalErrorHandler with the statusCode rule ahead of the rules on name
\* and code
globalErrorHandler_statusCodeFirst(error, requestId) ==
  LET rule == IF error.statusCode # 0 THEN "statusCode"
              ELSE IF error.name = "ValidationError" THEN "ValidationError"
              ELSE IF error.name = "CastError" THEN "CastError"
              ELSE IF error.code = 11000 THEN "11000"
              ELSE IF error.name = "JsonWebTokenError" THEN "JsonWebTokenError"
              ELSE IF error.name = "TokenExpiredError" THEN "TokenExpiredError"
              ELSE IF error.message # "" THEN "message"
              ELSE "default"
      threw == \/ rule = "ValidationError" /\ ~error.errors
               \/ rule = "11000" /\ ~error.keyValue
      statusCode == CASE rule \in {"ValidationError", "CastError"} -> 400
                      [] rule = "11000" -> 409
                      [] rule \in {"JsonWebTokenError", "TokenExpiredError"} -> 401
                      [] rule = "statusCode" -> error.statusCode
                      [] OTHER -> 500
  IN IF threw THEN [rule |-> rule, sent |-> 0, statusCode |-> 0, requestId |-> FALSE]
     ELSE [rule |-> rule, sent |-> 1, statusCode |-> statusCode, requestId |-> requestId]

\* middlewares/globalErrorHandler.js globalErrorHandler(error, req, res,
\* next): the else-if chain picks one rule, two of its branches dereference
\* a field of the error (Object.values(error.errors),
\* Object.keys(error.keyValue)) and throw when it is missing; otherwise
\* res.status(statusCode).json(errorResponse) is called once, at the end
globalErrorHandler(error, requestId) ==
  LET rule == IF error.name = "ValidationError" THEN "ValidationError"
              ELSE IF error.name = "CastError" THEN "CastError"
              ELSE IF error.code = 11000 THEN "11000"
              ELSE IF error.name = "JsonWebTokenError" THEN "JsonWebTokenError"
              ELSE IF error.name = "TokenExpiredError" THEN "TokenExpiredError"
              ELSE IF error.statusCode # 0 THEN "statusCode"
              ELSE IF error.message # "" THEN "message"
              ELSE "default"
      threw == \/ rule = "ValidationError" /\ ~error.errors
               \/ rule = "11000" /\ ~error.keyValue
      statusCode == CASE rule \in {"ValidationError", "CastError"} -> 400
                      [] rule = "11000" -> 409
                      [] rule \in {"JsonWebTokenError", "TokenExpiredError"} -> 401
                      [] rule = "statusCode" -> error.statusCode
                      [] OTHER -> 500
  IN IF threw THEN [rule |-> rule, sent |-> 0, statusCode |-> 0, requestId |-> FALSE]
     ELSE [rule |-> rule, sent |-> 1, statusCode |-> statusCode, requestId |-> requestId]

\* the record of an error answered by the handler
Handled(route, error, h) ==
  [route |-> route, gate |-> "none", guard |-> "none", req |-> NoReq,
   status |-> h.statusCode, message |-> h.rule, gateNext |-> FALSE, handler |-> FALSE,
   user |-> NoDoc, lookups |-> 0, resolver |-> 0, decoded |-> NotVerified,
   error |-> error, sent |-> h.sent, requestId |-> h.requestId]

\* a route or middleware called next(error) (asyncErrorHandler's catch)
handleError(error, requestId) ==
  /\ last = Idle
  /\ last' = Handled("next(error)", error, globalErrorHandler(error, requestId))
  /\ UNCHANGED <<now, users, userSeq, issued, tasks, taskSeq, reg, pw, conn, calls>>

\* middlewares/globalErrorHandler.js notFoundHandler: no route matched; it
\* builds an Error with statusCode 404 and passes it on
notFoundHandler(requestId) ==
  LET error == [Err("Error", 0, "Route not found") EXCEPT !.statusCode = 404] IN
  /\ last = Idle
  /\ last' = Handled("notFoundHandler", error, globalErrorHandler(error, requestId))
  /\ UNCHANGED <<now, users, userSeq, issued, tasks, taskSeq, reg, pw, conn, calls>>

(* ------------------- class TaskRepository / TaskService --------------- *)
\* a field a JavaScript object does not have (undefined)
Absent == "<undefined>"

\* the taskData / updateData objects a caller can pass: title, description
\* and status are strings or missing, userId is the hex id of user 1 or
\* missing (0); an update carries no description, and no title but a
\* rejected one (the one valid title is the title every stored task has)
TaskDatas ==
  [title : {Absent, "", "t1"}, description : {Absent, "d0"},
   status : {Absent, "", "completed", "bogus"}, userId : {0, 1}]
UpdateDatas == {d \in TaskDatas : d.description = Absent /\ d.title # "t1"}

\* controllers/userController.js TaskService.validateTaskData(taskData,
\* operation): title and description are checked when creating or when
\* present, status only when it is truthy
validateTaskData(taskData, operation) ==
  /\ (operation = "create" \/ taskData.title # Absent)
       => taskData.title \notin {Absent, ""}
  /\ (operation = "create" \/ taskData.description # Absent)
       => taskData.description \notin {Absent, ""}
  /\ (taskData.status \notin {Absent, ""}) => taskData.status \in Statuses

\* models/task.model.js: the schema validators of the paths an update or
\* a save sets (enum on status; an undefined path is not validated)
TaskPathsValid(taskData) ==
  /\ taskData.status # Absent => taskData.status \in Statuses
  /\ taskData.title # Absent => taskData.title # ""

\* the document after { $set: updateData }: every path of the schema that
\* updateData carries is written, userId included (cast to an ObjectId)
ApplyUpdate(doc, updateData) ==
  [doc EXCEPT !.title = IF updateData.title # Absent THEN updateData.title ELSE @,
              !.description = IF updateData.description # Absent
                                THEN updateData.description ELSE @,
              !.status = IF updateData.status # Absent THEN updateData.status ELSE @,
              !.userId = IF updateData.userId # 0 THEN Oid(updateData.userId) ELSE @]

\* the filter { _id: taskId, userId } / { _id: { $in: taskIds }, userId }
Matching(taskIds, userId) ==
  {k \in taskIds \cap DOMAIN tasks : tasks[k].userId = CastOid(userId)}

\* services/notificationService.js TaskRepository.findById(taskId, userId)
TaskRepository_findById(taskId, userId) ==
  IF Matching({taskId}, userId) # {} THEN tasks[taskId] ELSE NoDoc

\* TaskRepository.updateById with the filter { _id: taskId } alone
TaskRepository_updateById_anyOwner(taskId, updateData, userId) ==
  IF ~TaskPathsValid(updateData) THEN [tasks |-> tasks, doc |-> NoDoc, threw |-> TRUE]
  ELSE IF taskId \notin DOMAIN tasks THEN [tasks |-> tasks, doc |-> NoDoc, threw |-> FALSE]
  ELSE LET d == ApplyUpdate(tasks[taskId], updateData) IN
       [tasks |-> Put(tasks, taskId, d), doc |-> d, threw |-> FALSE]

\* services/notificationService.js TaskRepository.updateById(taskId,
\* updateData, userId): findOneAndUpdate with new: true, runValidators: true
TaskRepository_updateById(taskId, updateData, userId) ==
  IF ~TaskPathsValid(updateData) THEN [tasks |-> tasks, doc |-> NoDoc, threw |-> TRUE]
  ELSE IF Matching({taskId}, userId) = {} THEN [tasks |-> tasks, doc |-> NoDoc, threw |-> FALSE]
  ELSE LET d == ApplyUpdate(tasks[taskId], updateData) IN
       [tasks |-> Put(tasks, taskId, d), doc |-> d, threw |-> FALSE]

\* services/notificationService.js TaskRepository.deleteById(taskId, userId)
TaskRepository_deleteById(taskId, userId) ==
  IF Matching({taskId}, userId) = {} THEN [tasks |-> tasks, doc |-> NoDoc]
  ELSE [tasks |-> Remove(tasks, taskId), doc |-> tasks[taskId]]

\* services/notificationService.js TaskRepository.bulkUpdate(taskIds,
\* updateData, userId): Task.updateMany without options, so the schema
\* validators do not run
TaskRepository_bulkUpdate(taskIds, updateData, userId) ==
  LET m == Matching(taskIds, userId) IN
  [tasks |-> [k \in DOMAIN tasks |->
                IF k \in m THEN ApplyUpdate(tasks[k], updateData) ELSE tasks[k]],
   matchedCount |-> Cardinality(m), threw |-> FALSE]

\* services/notificationService.js TaskRepository.bulkDelete(taskIds, userId)
TaskRepository_bulkDelete(taskIds, userId) ==
  LET m == Matching(taskIds, userId) IN
  [tasks |-> [k \in DOMAIN tasks \ m |-> tasks[k]], deletedCount |-> Cardinality(m)]

\* the arguments of a call of TaskService
NoArgs == [taskIds |-> {}, data |-> [title |-> Absent, description |-> Absent,
                                     status |-> Absent, userId |-> 0],
           userId |-> 0]
Args(taskIds, data, userId) == [taskIds |-> taskIds, data |-> data, userId |-> userId]

\* the record of a call of TaskService: its arguments, the task or the
\* count it returned, or the error it threw with the status the error
\* handler gives it
Served(route, args, error, doc, count) ==
  [route |-> route, gate |-> "none", guard |-> "none", req |-> NoReq,
   status |-> IF error.name = "" THEN 0 ELSE globalErrorHandler(error, FALSE).statusCode,
   message |-> error.message, gateNext |-> FALSE, handler |-> error.name = "",
   user |-> NoDoc, lookups |-> 0, resolver |-> 0, decoded |-> NotVerified,
   args |-> args, doc |-> doc, count |-> count]

NoError == Err("", 0, "")
ValidationFailed == createError("Validation failed", 400, 1)
TaskNotFound == createError("Task not found", 404, 0)
SchemaError == Err("ValidationError", 0, "Validation failed")

\* controllers/userController.js TaskService.createTask(taskData, userId):
\* new Task({ ...taskData, userId }).save(); status defaults to 'pending'
TaskService_createTask(taskData, userId) ==
  LET id == TaskBase + taskSeq + 1
      args == Args({}, taskData, userId)
      doc == [_id |-> Oid(id), userId |-> Oid(userId), title |-> taskData.title,
              description |-> taskData.description,
              status |-> IF taskData.status = Absent THEN "pending" ELSE taskData.status]
  IN
  /\ last = Idle
  /\ taskSeq < MaxTasks
  /\ IF ~validateTaskData(taskData, "create")
       THEN /\ last' = Served("TaskService.createTask", args, ValidationFailed, NoDoc, 0)
            /\ UNCHANGED <<tasks, taskSeq>>
     ELSE IF ~TaskPathsValid(taskData)
       THEN /\ last' = Served("TaskService.createTask", args, SchemaError, NoDoc, 0)
            /\ UNCHANGED <<tasks, taskSeq>>
     ELSE /\ tasks' = Put(tasks, id, doc)
          /\ taskSeq' = taskSeq + 1
          /\ last' = Served("TaskService.createTask", args, NoError, doc, 0)
  /\ UNCHANGED <<now, users, userSeq, issued, reg, pw, conn, calls>>

\* controllers/userController.js TaskService.getTaskById(taskId, userId)
TaskService_getTaskById(taskId, userId) ==
  LET task == TaskRepository_findById(taskId, Str(userId))
      args == Args({taskId}, NoArgs.data, userId)
  IN
  /\ last = Idle
  /\ last' = IF ~IsDoc(task)
               THEN Served("TaskService.getTaskById", args, TaskNotFound, NoDoc, 0)
             ELSE Served("TaskService.getTaskById", args, NoError, task, 0)
  /\ UNCHANGED <<now, users, userSeq, issued, tasks, taskSeq, reg, pw, conn, calls>>

\* controllers/userController.js TaskService.updateTask(taskId, updateData,
\* userId)
TaskService_updateTask(taskId, updateData, userId) ==
  LET r == TaskRepository_updateById(taskId, updateData, Str(userId))
      args == Args({taskId}, updateData, userId)
  IN
  /\ last = Idle
  /\ IF ~validateTaskData(updateData, "update")
       THEN /\ last' = Served("TaskService.updateTask", args, ValidationFailed, NoDoc, 0)
            /\ tasks' = tasks
     ELSE IF r.threw
       THEN /\ last' = Served("TaskService.updateTask", args, SchemaError, NoDoc, 0)
            /\ tasks' = tasks
     ELSE IF ~IsDoc(r.doc)
       THEN /\ last' = Served("TaskService.updateTask", args, TaskNotFound, NoDoc, 0)
            /\ tasks' = tasks
     ELSE /\ last' = Served("TaskService.updateTask", args, NoError, r.doc, 0)
          /\ tasks' = r.tasks
  /\ UNCHANGED <<now, users, userSeq, issued, taskSeq, reg, pw, conn, calls>>

\* controllers/userController.js TaskService.updateTaskStatus(taskId,
\* status, userId)
TaskService_updateTaskStatus(taskId, status, userId) ==
  LET updateData == [NoArgs.data EXCEPT !.status = status]
      r == TaskRepository_updateById(taskId, updateData, Str(userId))
      args == Args({taskId}, updateData, userId)
  IN
  /\ last = Idle
  /\ IF status \notin Statuses
       THEN /\ last' = Served("TaskService.updateTaskStatus", args,
                            createError("Invalid status. Must be: pending, in-progress, or completed",
                                        400, 0),
                            NoDoc, 0)
            /\ tasks' = tasks
     ELSE IF ~IsDoc(r.doc)
       THEN /\ last' = Served("TaskService.updateTaskStatus", args, TaskNotFound, NoDoc, 0)
            /\ tasks' = tasks
     ELSE /\ last' = Served("TaskService.updateTaskStatus", args, NoError, r.doc, 0)
          /\ tasks' = r.tasks
  /\ UNCHANGED <<now, users, userSeq, issued, taskSeq, reg, pw, conn, calls>>

\* controllers/userController.js TaskService.deleteTask(taskId, userId)
TaskService_deleteTask(taskId, userId) ==
  LET r == TaskRepository_deleteById(taskId, Str(userId))
      args == Args({taskId}, NoArgs.data, userId)
  IN
  /\ last = Idle
  /\ IF ~IsDoc(r.doc)
       THEN /\ last' = Served("TaskService.deleteTask", args, TaskNotFound, NoDoc, 0)
            /\ tasks' = tasks
     ELSE /\ last' = Served("TaskService.deleteTask", args, NoError, r.doc, 0)
          /\ tasks' = r.tasks
  /\ UNCHANGED <<now, users, userSeq, issued, taskSeq, reg, pw, conn, calls>>

\* controllers/userController.js TaskService.bulkUpdateTasks(taskIds,
\* updateData, userId)
TaskService_bulkUpdateTasks(taskIds, updateData, userId) ==
  LET r == TaskRepository_bulkUpdate(taskIds, updateData, Str(userId))
      args == Args(taskIds, updateData, userId)
  IN
  /\ last = Idle
  /\ IF ~validateTaskData(updateData, "update")
       THEN /\ last' = Served("TaskService.bulkUpdateTasks", args, ValidationFailed, NoDoc, 0)
            /\ tasks' = tasks
     ELSE IF r.threw
       THEN /\ last' = Served("TaskService.bulkUpdateTasks", args, SchemaError, NoDoc, 0)
            /\ tasks' = tasks
     ELSE /\ last' = Served("TaskService.bulkUpdateTasks", args, NoError, NoDoc,
                              r.matchedCount)
          /\ tasks' = r.tasks
  /\ UNCHANGED <<now, users, userSeq, issued, taskSeq, reg, pw, conn, calls>>

\* controllers/userController.js TaskService.bulkDeleteTasks(taskIds, userId)
TaskService_bulkDeleteTasks(taskIds, userId) ==
  LET r == TaskRepository_bulkDelete(taskIds, Str(userId))
      args == Args(taskIds, NoArgs.data, userId)
  IN
  /\ last = Idle
  /\ last' = Served("TaskService.bulkDeleteTasks", args, NoError, NoDoc, r.deletedCount)
  /\ tasks' = r.tasks
  /\ UNCHANGED <<now, users, userSeq, issued, taskSeq, reg, pw, conn, calls>>

(* ------------------ function-style task service, called --------------- *)
\* a call of services/taskService.js deleteTask(userId, taskId) with the
\* hex id of a user
callDeleteTask(userId, taskId) ==
  \E target \in repoDeleteTargets(Str(userId)) :
    LET r == deleteTask(Str(userId), taskId, target)
        args == Args({taskId}, NoArgs.data, userId)
    IN
    /\ last = Idle
    /\ last' = IF r.ok THEN Served("deleteTask", args, NoError, tasks[target], 0)
               ELSE Served("deleteTask", args, Err("Error", 0, r.error), NoDoc, 0)
    /\ tasks' = r.tasks
    /\ UNCHANGED <<now, users, userSeq, issued, taskSeq, reg, pw, conn, calls>>

\* a call of services/taskService.js getTask(userId, taskId)
callGetTask(userId, taskId) ==
  LET r == getTask(Str(userId), taskId)
      args == Args({taskId}, NoArgs.data, userId)
  IN
  /\ last = Idle
  /\ last' = IF r.ok THEN Served("getTask", args, NoError, tasks[taskId], 0)
             ELSE Served("getTask", args, Err("Error", 0, r.error), NoDoc, 0)
  /\ UNCHANGED <<now, users, userSeq, issued, tasks, taskSeq, reg, pw, conn, calls>>

(* ---------------------- user service: updateProfile ------------------- *)
\* the profileData objects a caller can pass; Absent marks a key the object
\* does not have.  "L101" / "L501" stand for a string of 101 / 501
\* characters, one more than the schema's maxlength.
ProfileDatas ==
  [fullName : {Absent, "New Name", "L101"}, bio : {Absent, "hi", "L501"},
   email : {Absent, "c@x"}, userName : {Absent, "u3"},
   password : {Absent, "Hacked1!"}, isAdmin : {Absent, "admin"}]

\* Object.keys(profileData)
Keys(obj) == {k \in DOMAIN obj : obj[k] # Absent}

\* updateProfile with isAdmin on its allow list
allowedUpdates_withRole ==
  {"fullName", "bio", "location", "website", "skills", "experience", "education",
   "profilePicture", "isAdmin"}

\* services/userService.js UserService.updateProfile: allowedUpdates
allowedUpdates ==
  {"fullName", "bio", "location", "website", "skills", "experience", "education",
   "profilePicture"}

\* models/userModel.js: the validators of the paths an update sets
\* (maxlength 100 on fullName, 500 on bio, enum on isAdmin)
UserPathsValid(updateData) ==
  /\ "fullName" \in DOMAIN updateData => updateData.fullName # "L101"
  /\ "bio" \in DOMAIN updateData => updateData.bio # "L501"
  /\ "isAdmin" \in DOMAIN updateData => updateData.isAdmin \in Roles

\* repositories/userRepository.js UserRepository.updateUser(userId,
\* userData): User.findByIdAndUpdate with new: true, runValidators: true;
\* the result is the store afterwards, the returned document and whether
\* it threw
updateUser(userId, userData) ==
  IF ~UserPathsValid(userData) THEN [users |-> users, doc |-> NoDoc, threw |-> TRUE]
  ELSE IF userId \notin DOMAIN users THEN [users |-> users, doc |-> NoDoc, threw |-> FALSE]
  ELSE LET d == [k \in DOMAIN users[userId] \cup DOMAIN userData |->
                   IF k \in DOMAIN userData THEN userData[k] ELSE users[userId][k]]
       IN [users |-> Put(users, userId, d), doc |-> Selected(d), threw |-> FALSE]

\* services/userService.js UserService.updateProfile(userId, profileData):
\* the allow-listed keys of profileData are copied to updateData
UserService_updateProfile(userId, profileData) ==
  LET updateData == [k \in Keys(profileData) \cap allowedUpdates |-> profileData[k]]
      r == updateUser(userId, updateData)
      req == Call([userId |-> userId, profileData |-> profileData], TRUE, TRUE)
  IN
  /\ last = Idle
  /\ IF r.threw
       THEN /\ last' = Returned("UserService.updateProfile", req, FALSE,
                                "Error updating user profile: Error updating user", NoDoc)
            /\ UNCHANGED <<users, issued>>
     ELSE IF ~IsDoc(r.doc)
       THEN /\ last' = Returned("UserService.updateProfile", req, FALSE,
                                "Error updating user profile: Error updating user profile",
                                NoDoc)
            /\ UNCHANGED <<users, issued>>
     ELSE /\ last' = Returned("UserService.updateProfile", req, TRUE,
                              "User profile updated successfully", r.doc)
          /\ users' = r.users
          /\ issued' = Since(userId)
  /\ UNCHANGED <<now, userSeq, tasks, taskSeq, reg, pw, conn, calls>>

(* -------------------- user service: likes of profiles ----------------- *)
\* JavaScript ===: strings are equal when their characters are, an
\* ObjectId is equal to nothing but the very same object
StrictEq(a, b) == a.t = "string" /\ b.t = "string" /\ a.v = b.v

\* the likes array of a user document (the schema's default is [])
Likes(doc) == IF "likes" \in DOMAIN doc THEN doc.likes ELSE << >>

\* MongooseArray.prototype.includes: the argument is cast to an ObjectId
Includes(likes, id) == \E i \in DOMAIN likes : likes[i] = CastOid(id)

\* the document with its likes array replaced
WithLikes(doc, likes) ==
  [k \in DOMAIN doc \cup {"likes"} |-> IF k = "likes" THEN likes ELSE doc[k]]

\* repositories/userRepository.js UserRepository.getUserById(userId)
getUserById(userId) == findById(userId)

\* the ids a caller passes: the principal's id as the gates leave it on the
\* request (an ObjectId) or as a string, the profile's id as a string
LikerIds == {Oid(n) : n \in DOMAIN users} \cup {Str(n) : n \in DOMAIN users}
ProfileIds == {Str(n) : n \in DOMAIN users}

Failed(op, likerId, profileId) ==
  [pc |-> "failed", op |-> op, likerId |-> likerId, profileId |-> profileId]
Writing(op, likerId, profileId) ==
  [pc |-> "write", op |-> op, likerId |-> likerId, profileId |-> profileId]

\* services/userService.js UserService.likeProfile, up to its second
\* await: the self-like check, the read of the liker, the check of its likes
likeProfileRead(p, likerId, profileId) ==
  LET liker == getUserById(likerId) IN
  /\ calls[p].pc = "idle"
  /\ calls' = [calls EXCEPT ![p] =
       IF StrictEq(likerId, profileId) THEN Failed("like", likerId, profileId)
       ELSE IF ~IsDoc(liker) THEN Failed("like", likerId, profileId)
       ELSE IF Includes(Likes(liker), profileId) THEN Failed("like", likerId, profileId)
       ELSE Writing("like", likerId, profileId)]
  /\ UNCHANGED <<now, users, userSeq, issued, tasks, taskSeq, reg, last, pw, conn>>

\* repositories/userRepository.js UserRepository.likeProfile(likerId,
\* profileId): findByIdAndUpdate with $addToSet; the store afterwards
likeProfile(likerId, profileId) ==
  LET n == CastOid(likerId).v IN
  IF n \in DOMAIN users
    THEN Put(users, n, WithLikes(users[n], IF Includes(Likes(users[n]), profileId)
                                             THEN Likes(users[n])
                                             ELSE Append(Likes(users[n]), CastOid(profileId))))
    ELSE users

\* repositories/userRepository.js UserRepository.unlikeProfile(likerId,
\* profileId): findByIdAndUpdate with $pull; the store afterwards
unlikeProfile(likerId, profileId) ==
  LET n == CastOid(likerId).v IN
  IF n \in DOMAIN users
    THEN Put(users, n, WithLikes(users[n], SelectSeq(Likes(users[n]),
                                                LAMBDA x : x # CastOid(profileId))))
    ELSE users

\* UserService.likeProfile from its second await on: the write, then the
\* notification; the call returns or throws and is over
likeProfileWrite(p) ==
  /\ calls[p].pc = "write" /\ calls[p].op = "like"
  /\ users' = likeProfile(calls[p].likerId, calls[p].profileId)
  /\ calls' = [calls EXCEPT ![p] = NoCall]
  /\ UNCHANGED <<now, userSeq, issued, tasks, taskSeq, reg, last, pw, conn>>

\* services/userService.js UserService.unlikeProfile, up to its second
\* await: the read of the liker and the check of its likes
unlikeProfileRead(p, likerId, profileId) ==
  LET liker == getUserById(likerId) IN
  /\ calls[p].pc = "idle"
  /\ calls' = [calls EXCEPT ![p] =
       IF ~IsDoc(liker) THEN Failed("unlike", likerId, profileId)
       ELSE IF ~Includes(Likes(liker), profileId) THEN Failed("unlike", likerId, profileId)
       ELSE Writing("unlike", likerId, profileId)]
  /\ UNCHANGED <<now, users, userSeq, issued, tasks, taskSeq, reg, last, pw, conn>>

\* UserService.unlikeProfile from its second await on
unlikeProfileWrite(p) ==
  /\ calls[p].pc = "write" /\ calls[p].op = "unlike"
  /\ users' = unlikeProfile(calls[p].likerId, calls[p].profileId)
  /\ calls' = [calls EXCEPT ![p] = NoCall]
  /\ UNCHANGED <<now, userSeq, issued, tasks, taskSeq, reg, last, pw, conn>>

\* the caller has caught the error of a failed call
callFailed(p) ==
  /\ calls[p].pc = "failed"
  /\ calls' = [calls EXCEPT ![p] = NoCall]
  /\ UNCHANGED <<now, users, userSeq, issued, tasks, taskSeq, reg, last, pw, conn>>

(* ---------------------------- refresh tokens -------------------------- *)
\* the sig of a token signed with JWT_REFRESH_SECRET; "valid" is the sig of
\* one signed with JWT_SECRET
SignedRefresh == "valid-refresh"

\* utils/generateToken.js generateRefreshToken(user): the payload carries
\* tokenType: 'refresh'; the key is JWT_REFRESH_SECRET when that is
\* configured (refreshSecret), JWT_SECRET otherwise
generateRefreshToken(user, ttl, t, refreshSecret) ==
  LET tok == generateToken(user, ttl, t) IN
  [sig |-> IF refreshSecret THEN SignedRefresh ELSE tok.sig, key |-> tok.key,
   sub |-> tok.sub, exp |-> tok.exp, tokenType |-> "refresh"]

\* utils/generateToken.js verifyRefreshToken(token): jwt.verify under
\* JWT_REFRESH_SECRET || JWT_SECRET, then the tokenType check, whose Error
\* the catch block reports as 'Refresh token verification failed'
verifyRefreshToken(tok, t, refreshSecret) ==
  LET key == IF refreshSecret THEN SignedRefresh ELSE "valid" IN
  IF tok.sig \in {"absent", "malformed"} \/ tok.sig # key
    THEN [ok |-> FALSE, name |-> "Error", message |-> "Invalid refresh token",
          payload |-> NoToken]
  ELSE IF t >= tok.exp
    THEN [ok |-> FALSE, name |-> "Error", message |-> "Refresh token has expired",
          payload |-> NoToken]
  ELSE IF "tokenType" \notin DOMAIN tok \/ tok.tokenType # "refresh"
    THEN [ok |-> FALSE, name |-> "Error", message |-> "Refresh token verification failed",
          payload |-> NoToken]
  ELSE [ok |-> TRUE, name |-> "", message |-> "", payload |-> tok]

\* generateRefreshToken applied to a stored user; the client keeps the token
issueRefreshToken(n, ttl, refreshSecret) ==
  /\ last = Idle
  /\ n \in DOMAIN users
  /\ Cardinality(issued) < MaxTokens
  /\ issued' = issued \cup {Handed(generateRefreshToken(users[n], ttl, now, refreshSecret),
                                    n, ttl, "generateRefreshToken")}
  /\ UNCHANGED <<now, users, userSeq, tasks, taskSeq, reg, last, pw, conn, calls>>

\* a call of verifyToken(token)
callVerifyToken(tok) ==
  LET r == verifyToken(tok, now) IN
  /\ last = Idle
  /\ last' = Returned("verifyToken", [NoReq EXCEPT !.header = Bearer(tok)], r.ok,
                      r.message, NoDoc)
  /\ UNCHANGED <<now, users, userSeq, issued, tasks, taskSeq, reg, pw, conn, calls>>

\* a call of verifyRefreshToken(token)
callVerifyRefreshToken(tok, refreshSecret) ==
  LET r == verifyRefreshToken(tok, now, refreshSecret) IN
  /\ last = Idle
  /\ last' = Returned("verifyRefreshToken", [NoReq EXCEPT !.header = Bearer(tok)], r.ok,
                      r.message, NoDoc)
  /\ UNCHANGED <<now, users, userSeq, issued, tasks, taskSeq, reg, pw, conn, calls>>

(* --------------------------- specifications --------------------------- *)
UserDatas ==
  {[userName |-> "u1", email |-> "a@x", password |-> [head |-> "Passw0rd!", tail |-> ""],
    fullName |-> "Full Name", isAdmin |-> r] : r \in Roles}
  \cup {[userName |-> "u2", email |-> "b@x", password |-> [head |-> "passw0rd!", tail |-> ""],
         fullName |-> "Full Name", isAdmin |-> r] : r \in Roles}

\* the authentication gates: every credential a client can present, in
\* the cookie, in the header or in both, while the clock advances
Next ==
  \/ Tick
  \/ \E d \in {u \in UserDatas : u.isAdmin = "user"}, ttl \in TTLs, notifOk \in BOOLEAN,
        keep \in BOOLEAN :
       registerUser(d, ttl, notifOk, TRUE, keep)
  \/ \E n \in DOMAIN users, ttl \in TTLs : issueToken(n, ttl, TRUE)
  \/ \E i \in issued : logout(i, TRUE)
  \/ \E c \in Cookies, up \in BOOLEAN :
       \E h \in (IF c = NoToken THEN Headers ELSE {NoHeader, Bearer(Garbage)}) :
         getUserProfile(c, h, up)
  \/ \E gate \in {"authMiddleware", "optionalAuth"}, c \in {NoToken} \cup Held,
        up \in BOOLEAN :
       \E h \in (IF c = NoToken THEN Headers ELSE {NoHeader}) :
         guarded(gate, "none", c, h, up, 0)
  \/ endRequest

Spec == Init /\ [][Next]_vars

\* the ownership check on task routes
NextOwn ==
  \/ \E d \in UserDatas, ttl \in TTLs : registerUser(d, ttl, TRUE, TRUE, FALSE)
  \/ \E n \in DOMAIN users, ttl \in TTLs : issueToken(n, ttl, TRUE)
  \/ \E i \in issued : logout(i, TRUE)
  \/ \E h \in Headers, up \in BOOLEAN : createTask(h, up)
  \/ \E gate \in Gates, guard \in {"authorize", "checkResourceOwnership"},
        h \in Headers, up \in BOOLEAN, k \in TaskIds :
       guarded(gate, guard, NoToken, h, up, k)
  \/ endRequest

SpecOwn == Init /\ [][NextOwn]_vars

\* the function-style task routes
NextTask ==
  \/ \E d \in {u \in UserDatas : u.isAdmin = "user"}, ttl \in TTLs, keep \in BOOLEAN :
       registerUser(d, ttl, TRUE, TRUE, keep)
  \/ \E n \in DOMAIN users, ttl \in TTLs : issueToken(n, ttl, TRUE)
  \/ \E i \in issued : logout(i, TRUE)
  \/ \E h \in Headers, up \in BOOLEAN : createTask(h, up)
  \/ \E c \in Cookies, h \in {NoHeader}, up \in BOOLEAN, k \in TaskIds :
       fetchTask(c, h, up, k)
  \/ \E c \in Cookies, h \in {NoHeader}, up \in BOOLEAN, k \in TaskIds, b \in Bodies :
       putTask(c, h, up, k, b)
  \/ \E c \in Cookies, h \in {NoHeader}, up \in BOOLEAN, k \in TaskIds :
       delTask(c, h, up, k)
  \/ endRequest

SpecTask == Init /\ [][NextTask]_vars

\* the registration requests, running concurrently with each other and with
\* registrations through the user service
NextReg ==
  \/ \E d \in UserDatas, ttl \in TTLs : registerUser(d, ttl, TRUE, TRUE, FALSE)
  \/ \E p \in Procs, b \in RegBodies : regReceive(p, b)
  \/ \E p \in Procs : regHash(p)
  \/ \E p \in Procs, ttl \in TTLs : regCreate(p, ttl)
  \/ endRequest

SpecReg == Init /\ [][NextReg]_vars

\* the life of a token: logout, login and profile changes between the
\* requests that present it
NextLife ==
  \/ Tick
  \/ \E d \in UserDatas, ttl \in TTLs, keep \in BOOLEAN : registerUser(d, ttl, TRUE, TRUE, keep)
  \/ \E n \in DOMAIN users, ttl \in TTLs, keep \in BOOLEAN : issueToken(n, ttl, keep)
  \/ \E i \in issued, removed \in BOOLEAN : logout(i, removed)
  \/ \E n \in DOMAIN users : updateProfile(n, "New Name")
  \/ \E a \in DOMAIN users, u \in DOMAIN users : deleteUserAsAdmin(a, u)
  \/ \E c \in Held : getUserProfile(c, NoHeader, TRUE)
  \/ \E c \in Held : guarded("authMiddleware", "none", NoToken, Bearer(c), TRUE, 0)
  \/ endRequest

SpecLife == Init /\ [][NextLife]_vars

\* the user service
NextSvc ==
  \/ \E d \in UserDatas, ttl \in TTLs, notifOk \in BOOLEAN, emailOk \in BOOLEAN,
        keep \in BOOLEAN :
       registerUser(d, ttl, notifOk, emailOk, keep)
  \/ \E e \in Emails, p \in Plaintexts, ttl \in TTLs, keep \in BOOLEAN : login(e, p, ttl, keep)
  \/ \E n \in 1..MaxUsers : getprofile(Str(n))
  \/ \E i \in issued : logout(i, TRUE)
  \/ \E c \in Cookies, up \in BOOLEAN : getUserProfile(c, NoHeader, up)
  \/ endRequest

SpecSvc == Init /\ [][NextSvc]_vars

\* the store connection
NextDb ==
  \/ \E c \in Callers : connectDB(c)
  \/ \E c \in Callers : connectResolved(c)
  \/ \E c \in Callers : connectRejected(c)
  \/ \E c \in Callers : connectReturn(c)

SpecDb == Init /\ [][NextDb]_vars

\* the password hasher
NextPw ==
  \/ \E p \in Plaintexts : hashPassword(p)
  \/ \E p \in Plaintexts : preSave(p)
  \/ \E p \in Plaintexts, k \in DOMAIN pw.made : comparePasswords(p, k)
  \/ \E p \in Plaintexts, k \in DOMAIN pw.made : comparePassword(p, k)

SpecPw == Init /\ [][NextPw]_vars

\* the function-style login route
NextLogin ==
  \/ \E d \in UserDatas, ttl \in TTLs, keep \in BOOLEAN : registerUser(d, ttl, TRUE, TRUE, keep)
  \/ \E b \in LoginBodies, ttl \in TTLs, absent \in {"throws", "false"} :
       loginUserController(b, ttl, absent)
  \/ \E a \in DOMAIN users, u \in DOMAIN users : deleteUserAsAdmin(a, u)
  \/ endRequest

SpecLogin == Init /\ [][NextLogin]_vars

\* the error handler
NextErr ==
  \/ \E e \in Errors, requestId \in BOOLEAN : handleError(e, requestId)
  \/ \E requestId \in BOOLEAN : notFoundHandler(requestId)
  \/ endRequest

SpecErr == Init /\ [][NextErr]_vars

\* class TaskService
UserIds == 1..MaxUsers
NextCls ==
  \/ \E d \in TaskDatas, u \in UserIds : TaskService_createTask(d, u)
  \/ \E k \in TaskIds, u \in UserIds : TaskService_getTaskById(k, u)
  \/ \E k \in TaskIds, d \in UpdateDatas, u \in UserIds : TaskService_updateTask(k, d, u)
  \/ \E k \in TaskIds, st \in {Absent, "", "completed", "bogus"}, u \in UserIds :
       TaskService_updateTaskStatus(k, st, u)
  \/ \E k \in TaskIds, u \in UserIds : TaskService_deleteTask(k, u)
  \/ \E ks \in SUBSET TaskIds, d \in UpdateDatas, u \in UserIds :
       TaskService_bulkUpdateTasks(ks, d, u)
  \/ \E ks \in SUBSET TaskIds, u \in UserIds : TaskService_bulkDeleteTasks(ks, u)
  \/ endRequest

SpecCls == Init /\ [][NextCls]_vars

\* the function-style task service on stored tasks
NextFn ==
  \/ \E d \in UserDatas, ttl \in TTLs : registerUser(d, ttl, TRUE, TRUE, FALSE)
  \/ \E d \in {t \in TaskDatas : validateTaskData(t, "create") /\ TaskPathsValid(t)},
        u \in UserIds :
       TaskService_createTask(d, u)
  \/ \E u \in UserIds, k \in TaskIds : callDeleteTask(u, k)
  \/ \E u \in UserIds, k \in TaskIds : callGetTask(u, k)
  \/ endRequest

SpecFn == Init /\ [][NextFn]_vars

\* profile updates
NextProf ==
  \/ \E d \in UserDatas, ttl \in TTLs : registerUser(d, ttl, TRUE, TRUE, FALSE)
  \/ \E u \in UserIds, d \in ProfileDatas : UserService_updateProfile(u, d)
  \/ endRequest

SpecProf == Init /\ [][NextProf]_vars

\* likes of profiles, the calls interleaved at their awaits
NextLike ==
  \/ \E d \in {u \in UserDatas : u.isAdmin = "user"}, ttl \in TTLs :
       registerUser(d, ttl, TRUE, TRUE, FALSE)
  \/ endRequest
  \/ \E p \in Procs, l \in LikerIds, q \in ProfileIds : likeProfileRead(p, l, q)
  \/ \E p \in Procs : likeProfileWrite(p)
  \/ \E p \in Procs, l \in LikerIds, q \in ProfileIds : unlikeProfileRead(p, l, q)
  \/ \E p \in Procs : unlikeProfileWrite(p)
  \/ \E p \in Procs : callFailed(p)

SpecLike == Init /\ [][NextLike]_vars

\* access and refresh tokens
NextTok ==
  \/ Tick
  \/ \E d \in {u \in UserDatas : u.isAdmin = "user"}, ttl \in TTLs :
       registerUser(d, ttl, TRUE, TRUE, FALSE)
  \/ \E n \in DOMAIN users, ttl \in TTLs : issueToken(n, ttl, TRUE)
  \/ \E n \in DOMAIN users, ttl \in TTLs, rs \in BOOLEAN : issueRefreshToken(n, ttl, rs)
  \/ \E i \in issued : logout(i, TRUE)
  \/ \E c \in Presentable : callVerifyToken(c)
  \/ \E c \in Presentable, rs \in BOOLEAN : callVerifyRefreshToken(c, rs)
  \/ \E c \in Presentable : guarded("authMiddleware", "none", NoToken, Bearer(c), TRUE, 0)
  \/ endRequest

SpecTok == Init /\ [][NextTok]_vars

(* ------------------------------ claims -------------------------------- *)
AuthGates == {"verifyJWT", "authMiddleware"}

\* the token of a request that carries exactly one credential: in the
\* accessToken cookie, or as Authorization: Bearer <token>
SoleToken(l) ==
  IF l.req.cookie # NoToken /\ l.req.header = NoHeader THEN l.req.cookie
  ELSE IF l.req.cookie = NoToken /\ l.req.header.scheme = "Bearer" THEN l.req.header.tok
  ELSE NoToken

\* the id of the principal attached to a request (the user document for
\* verifyJWT, the projection for authMiddleware)
PrincipalId(u) == IF "_id" \in DOMAIN u THEN u._id ELSE u.id

\* user n was stored once and has been deleted since
Deleted(n) == n \in 1..userSeq /\ n \notin DOMAIN users

\* C1: a request with no accessToken cookie and no Authorization header is
\* answered 401 by either authentication gate; the gate does not call
\* next(), makes no store lookup, and the resource handler is not reached.
C1_NoCredentialRejected ==
  (last.gate \in AuthGates /\ last.req.cookie = NoToken /\ last.req.header = NoHeader)
    => /\ last.status = 401
       /\ ~last.gateNext
       /\ last.lookups = 0
       /\ ~last.handler

C1_Witness ==
  /\ last.route = "GET /users/profile" /\ last.gate = "verifyJWT"
  /\ last.req.cookie = NoToken /\ last.req.header = NoHeader
  /\ DOMAIN users # {}
  /\ last.status = 401

\* C2: a request whose token is well-formed but expired, or whose token has
\* a tampered signature, is answered 401 by either authentication gate; it
\* does not reach the resource handler and gets no principal attached.
C2_ExpiredOrTamperedRejected ==
  LET tok == SoleToken(last) IN
  (last.gate \in AuthGates
     /\ (tok.sig = "tampered" \/ (tok.sig = "valid" /\ now >= tok.exp)))
    => /\ last.status = 401
       /\ ~last.handler
       /\ ~IsDoc(last.user)

C2_Witness ==
  LET tok == SoleToken(last) IN
  /\ last.gate = "authMiddleware"
  /\ tok.sig = "valid" /\ tok.key = "id" /\ now >= tok.exp
  /\ CastOid(tok.sub).v \in DOMAIN users
  /\ last.req.dbUp
  /\ last.status = 401

\* C3: once a principal has been deleted from the store, a request that
\* presents a still-unexpired token issued to it is answered 401 by either
\* authentication gate and does not reach the resource handler.
C3_DeletedPrincipalRejected ==
  LET tok == SoleToken(last) IN
  (last.gate \in AuthGates
     /\ \E i \in issued : i.tok = tok /\ now < i.until /\ Deleted(i.to))
    => /\ last.status = 401
       /\ ~last.handler

C3_Witness ==
  LET tok == SoleToken(last) IN
  /\ last.gate = "verifyJWT"
  /\ \E i \in issued : i.tok = tok /\ now < i.until /\ Deleted(i.to) /\ i.by = "tokenUtils"
  /\ last.req.dbUp
  /\ last.lookups = 1
  /\ last.status = 401

\* C4: checkResourceOwnership, for an authenticated principal A: when the
\* resolver yields an owner other than A the request is answered 403 and
\* next() is not called; when it yields A's own id, next() is called and the
\* middleware sends no response (the handler answers).
C4_OwnershipCheck ==
  (/\ last.guard = "checkResourceOwnership"
   /\ IsDoc(last.user)
   /\ last.req.dbUp
   /\ last.req.resourceId \in DOMAIN tasks)
    => IF tasks[last.req.resourceId].userId # PrincipalId(last.user)
         THEN last.status = 403 /\ ~last.handler /\ last.resolver = 1
         ELSE last.handler /\ last.status = 200 /\ last.resolver = 1

C4_Witness ==
  /\ last.guard = "checkResourceOwnership" /\ last.gate = "authMiddleware"
  /\ IsDoc(last.user)
  /\ last.req.dbUp
  /\ last.req.resourceId \in DOMAIN tasks
  /\ tasks[last.req.resourceId].userId # PrincipalId(last.user)
  /\ last.status = 403

\* C7: authorize and checkResourceOwnership, run on a request that has no
\* principal attached, answer 401 'Authentication required', never 403, and
\* call neither next() nor the ownership resolver.
C7_NoPrincipalIs401 ==
  (/\ last.guard \in {"authorize", "checkResourceOwnership"}
   /\ last.gateNext
   /\ ~IsDoc(last.user))
    => /\ last.status = 401
       /\ last.message = "Authentication required"
       /\ ~last.handler
       /\ last.resolver = 0

C7_Witness ==
  /\ last.guard = "checkResourceOwnership" /\ last.gate = "optionalAuth"
  /\ last.gateNext
  /\ ~IsDoc(last.user)
  /\ last.req.header.scheme = "Bearer"
  /\ last.req.resourceId \in DOMAIN tasks
  /\ last.status = 401

\* C5: in the function-style task routes a stored task is modified or
\* removed only by a request whose authenticated principal is the task's
\* owner; a request by anybody else leaves the task store unchanged.
C5_OnlyOwnerMutates ==
  [][\A k \in DOMAIN tasks :
       (last'.route \in {"PUT /tasks/:taskId", "DELETE /tasks/:taskId"}
          /\ (k \notin DOMAIN tasks' \/ tasks'[k] # tasks[k]))
         => (IsDoc(last'.user) /\ PrincipalId(last'.user) = tasks[k].userId)]_vars

\* C6: in the chain authMiddleware, authorize('admin') a request with a
\* valid token of an admin principal proceeds to the handler and one with a
\* valid token of a principal whose role is user is answered 403.
C6_AdminProceedsUserForbidden ==
  LET tok == SoleToken(last) IN
  (/\ last.gate = "authMiddleware" /\ last.guard = "authorize"
   /\ last.req.header = Bearer(tok)
   /\ last.req.dbUp
   /\ \E i \in issued : /\ i.tok = tok /\ i.by = "generateToken"
                        /\ now < i.until /\ i.to \in DOMAIN users)
    => \A i \in issued :
         i.tok = tok =>
           IF users[i.to].isAdmin = "admin"
             THEN last.handler
             ELSE last.status = 403 /\ ~last.handler

\* C8: when two registration requests with the same email have both been
\* answered, one was answered 201 and the other 409, and exactly one
\* principal with that email is in the store.
C8_OneCreatedOneConflict ==
  \A p \in Procs, q \in Procs :
    (/\ p # q
     /\ reg[p].pc = "done" /\ reg[q].pc = "done"
     /\ reg[p].body.email = reg[q].body.email
     /\ reg[p].body.email # "")
      => /\ {reg[p].status, reg[q].status} = {201, 409}
         /\ Cardinality({n \in DOMAIN users : users[n].email = reg[p].body.email}) = 1

\* C9: a token issued by generateToken for a user and presented before its
\* expiry verifies to a payload whose subject id is that user's id, and the
\* authentication gate resolves exactly that principal.
C9_TokenRoundTrip ==
  LET tok == SoleToken(last) IN
  \A i \in issued :
    (/\ i.tok = tok
     /\ now < i.until
     /\ \/ /\ last.gate = "authMiddleware" /\ i.by = "generateToken"
           /\ last.req.header = Bearer(tok)
        \/ /\ last.gate = "verifyJWT" /\ i.by = "tokenUtils")
      => /\ last.decoded.ran /\ last.decoded.ok
         /\ CastOid(last.decoded.sub) = Oid(i.to)
         /\ (last.req.dbUp /\ i.to \in DOMAIN users)
              => (last.gateNext /\ IsDoc(last.user)
                  /\ PrincipalId(last.user) = users[i.to]._id)

C9_Witness ==
  /\ last.gate = "authMiddleware"
  /\ last.req.cookie = NoToken
  /\ \E i \in issued : /\ last.req.header = Bearer(i.tok) /\ i.by = "generateToken"
                       /\ now < i.until /\ i.to \in DOMAIN users /\ i.to = 2
  /\ last.req.dbUp
  /\ last.decoded.ok
  /\ IsDoc(last.user)

\* the token an Authorization header hands to verifyToken
HeaderToken(l) == IF l.req.header.scheme = "Bearer" THEN l.req.header.tok ELSE NoToken

\* C10 as stated: for every token, verification at or after its expiry
\* fails with 'Token has expired' and returns no payload.
C10_ExpiredAlwaysReported ==
  LET tok == HeaderToken(last) IN
  (/\ last.gate \in {"authMiddleware", "optionalAuth"}
   /\ tok.sig \in {"valid", "tampered"}
   /\ now >= tok.exp)
    => /\ last.decoded.ran /\ ~last.decoded.ok
       /\ last.decoded.message = "Token has expired"

\* C10 as amended: verification at or after a token's expiry never returns
\* a payload; when the token's signature verifies it fails with 'Token has
\* expired', with no leeway (already at the second of expiry).
C10_ExpiredNeverAccepted ==
  LET tok == HeaderToken(last) IN
  (/\ last.gate \in {"authMiddleware", "optionalAuth"}
   /\ tok.sig \in {"valid", "tampered"}
   /\ now >= tok.exp)
    => /\ last.decoded.ran /\ ~last.decoded.ok
       /\ tok.sig = "valid" => last.decoded.message = "Token has expired"

C10_Witness ==
  LET tok == HeaderToken(last) IN
  /\ last.gate = "authMiddleware"
  /\ tok.sig = "valid"
  /\ now = tok.exp
  /\ last.decoded.ran /\ ~last.decoded.ok
  /\ last.decoded.message = "Token has expired"

\* C11: two digests of the same plaintext differ, and comparing p2 against
\* a digest of p1 returns true exactly when p2 = p1, without throwing.
C11_CompareExactlyWhenEqual ==
  /\ \A j \in DOMAIN pw.made, k \in DOMAIN pw.made :
       (j # k /\ pw.made[j].plain = pw.made[k].plain)
         => pw.made[j].digest # pw.made[k].digest
  /\ pw.cmp.ran
       => /\ ~pw.cmp.threw
          /\ pw.cmp.result = (pw.cmp.plain = pw.made[pw.cmp.of].plain)

\* the token was handed out for a stored user by the issuer whose payload
\* key the gate reads, and has not expired
GoodFor(tok, gate) ==
  \E i \in issued :
    /\ i.tok = tok /\ now < i.until /\ i.to \in DOMAIN users
    /\ i.by = (IF gate = "verifyJWT" THEN "tokenUtils" ELSE "generateToken")

\* C12: each authentication gate takes the credential from the accessToken
\* cookie first and from the Authorization: Bearer header second: a valid
\* token in the cookie authenticates the request whatever the header holds,
\* and a valid token in the header authenticates it when there is no cookie.
C12_CookieThenHeader ==
  (last.gate \in AuthGates /\ last.req.dbUp)
    => /\ GoodFor(last.req.cookie, last.gate)
            => (last.gateNext /\ IsDoc(last.user))
       /\ (last.req.cookie = NoToken /\ last.req.header.scheme = "Bearer"
             /\ GoodFor(last.req.header.tok, last.gate))
            => (last.gateNext /\ IsDoc(last.user))

\* C13: optionalAuth never rejects: whatever the request carries and
\* whether or not the store answers, it sends no response and calls next();
\* req.user is set only when the token verifies and its principal is found,
\* and then it is that principal.
C13_OptionalAuthNeverRejects ==
  last.gate = "optionalAuth"
    => /\ last.gateNext
       /\ last.guard = "none" => (last.handler /\ last.status = 200)
       /\ IsDoc(last.user)
            => /\ last.req.dbUp
               /\ \E i \in issued :
                    /\ last.req.header = Bearer(i.tok)
                    /\ now < i.tok.exp
                    /\ i.to \in DOMAIN users
                    /\ PrincipalId(last.user) = users[i.to]._id
       /\ (last.req.dbUp /\ last.req.header.scheme = "Bearer"
             /\ GoodFor(last.req.header.tok, "optionalAuth"))
            => IsDoc(last.user)

C13_Witness ==
  /\ last.gate = "optionalAuth" /\ last.guard = "none"
  /\ last.req.header.scheme = "Bearer"
  /\ \/ last.req.header.tok.sig = "valid" /\ now >= last.req.header.tok.exp
     \/ last.req.header.tok.sig = "tampered"
     \/ ~last.req.dbUp /\ last.decoded.ok
  /\ last.handler /\ ~IsDoc(last.user)

\* C14: when the principal lookup fails with a store error inside an
\* authentication gate, the gate does not answer 401: the error reaches the
\* fallback handler and the client receives a 500.
C14_StoreErrorIs500 ==
  (/\ last.gate \in AuthGates
   /\ last.decoded.ran /\ last.decoded.ok
   /\ ~last.req.dbUp)
    => (last.status = 500 /\ ~last.handler)

\* C15: authMiddleware names the reason in its 401: 'Token has expired' for
\* a token verifyToken rejects as expired, 'Invalid token' for one it rejects
\* as invalid (bad signature, malformed), and 'Authentication failed' only
\* for errors that are neither.
C15_ReasonInMessage ==
  (last.gate = "authMiddleware" /\ ~last.gateNext)
    => /\ last.status = 401
       /\ (last.decoded.ran /\ last.decoded.message = "Token has expired")
            => last.message = "Token has expired"
       /\ (last.decoded.ran /\ last.decoded.message = "Invalid token")
            => last.message = "Invalid token"
       /\ last.message = "Authentication failed"
            => ~(last.decoded.ran /\ ~last.decoded.ok)

\* C16: tokens are never revoked server-side: a request presenting an
\* issued token before its expiry is authenticated as its principal as long
\* as the principal exists, whatever logout, login or profile update has
\* happened since the token was issued.
C16_NeverRevoked ==
  LET tok == SoleToken(last) IN
  (/\ last.gate \in AuthGates
   /\ last.gate = "authMiddleware" => last.req.header = Bearer(tok)
   /\ last.req.dbUp
   /\ GoodFor(tok, last.gate))
    => /\ last.gateNext /\ IsDoc(last.user)
       /\ \A i \in issued : i.tok = tok => PrincipalId(last.user) = users[i.to]._id

C16_Witness ==
  /\ last.gate = "authMiddleware"
  /\ \E i \in issued : /\ last.req.header = Bearer(i.tok) /\ i.since
                       /\ now < i.until /\ i.to \in DOMAIN users
  /\ last.handler /\ IsDoc(last.user)

TaskRoutes == {"GET /tasks/:taskId", "PUT /tasks/:taskId", "DELETE /tasks/:taskId"}

\* C17: a getTask, updateTask or deleteTask request of an authenticated
\* principal who does not own the addressed task is answered 403; a request
\* that fails authentication is answered 401.
C17_NotOwnerIs403 ==
  [][last'.route \in TaskRoutes
       => /\ ~last'.gateNext => last'.status = 401
          /\ (/\ IsDoc(last'.user)
              /\ last'.req.resourceId \in DOMAIN tasks
              /\ tasks[last'.req.resourceId].userId # PrincipalId(last'.user)
              /\ last'.route = "PUT /tasks/:taskId"
                    => (/\ last'.req.body.title # "" /\ last'.req.body.description # ""
                        /\ last'.req.body.status \in Statuses))
               => last'.status = 403]_vars

\* C18: the stored password hash never leaves the service: no result that
\* registerUser, login or getprofile returns, and no principal a gate
\* attaches to a request, contains it.
C18_HashNeverReturned ==
  IsDoc(last.user) => "password" \notin DOMAIN last.user

\* C19: registerUser reports failure only when it has stored no user, and
\* a failing welcome notification or welcome email does not make it fail.
C19_FailureStoresNothing ==
  [][last'.route = "UserService.registerUser"
       => /\ ~last'.handler => users' = users
          /\ (~DuplicateKey(last'.req.userData) /\ SaveUser(last'.req.userData) = "ok")
               => last'.handler]_vars

\* C20: connectDB opens the store connection at most once per process:
\* however many calls are made and however they overlap, mongoose.connect
\* is invoked exactly once.
C20_ConnectOnce ==
  /\ conn.connects <= 1
  /\ (\E c \in Callers : conn.pc[c] # "idle") => conn.connects = 1

\* C21: loginUser answers a login attempt with an unknown email and one with
\* a wrong password with 401, and answers 500 only when the failure is
\* neither of the two.
C21_LoginFailuresAre401 ==
  LET b == last.req.userData
      known == \E n \in DOMAIN users : users[n].email = b.email
      wrong == \E n \in DOMAIN users :
                 users[n].email = b.email /\ ~bcryptCompare(b.password, users[n].password)
  IN
  (last.route = "POST /users/login" /\ b.email # "" /\ b.password # NoPlain)
    => /\ (~known \/ wrong) => last.status = 401
       /\ last.status = 500 => ~(~known \/ wrong)

\* C22: globalErrorHandler sends exactly one response per error, with the
\* status of the first matching rule in the order ValidationError 400,
\* CastError 400, code 11000 409, JsonWebTokenError 401, TokenExpiredError
\* 401, a set statusCode that status, anything else 500; notFoundHandler
\* always leads to a 404.
C22_FirstRuleStatus ==
  LET e == last.error IN
  /\ last.route \in {"next(error)", "notFoundHandler"}
       => /\ last.sent = 1
          /\ last.status =
               (IF e.name = "ValidationError" THEN 400
                ELSE IF e.name = "CastError" THEN 400
                ELSE IF e.code = 11000 THEN 409
                ELSE IF e.name = "JsonWebTokenError" THEN 401
                ELSE IF e.name = "TokenExpiredError" THEN 401
                ELSE IF e.statusCode # 0 THEN e.statusCode
                ELSE 500)
  /\ last.route = "notFoundHandler" => last.status = 404

\* an error that matches two rules (a duplicate key error on which a
\* statusCode was set) is answered by the earlier one
C22_Witness ==
  /\ last.route = "next(error)"
  /\ last.error.code = 11000 /\ last.error.statusCode = 422
  /\ last.status = 409 /\ last.sent = 1

\* the calls of class TaskService that address tasks by id
SingleTaskRoutes == {"TaskService.getTaskById", "TaskService.updateTask",
                     "TaskService.updateTaskStatus", "TaskService.deleteTask"}
BulkRoutes == {"TaskService.bulkUpdateTasks", "TaskService.bulkDeleteTasks"}
\* the stored tasks that are not user A's
NotOf(A) == {k \in DOMAIN tasks : tasks[k].userId # Oid(A)}

\* C23 (as stated): TaskService operations called with user id A never
\* return, modify or delete a task whose userId is not A; a single-task call
\* on such an id fails with 'Task not found' (404) and bulk calls count only
\* A's tasks.
C23_ForeignIdIs404 ==
  [][(last = Idle /\ last'.route \in SingleTaskRoutes \cup BulkRoutes)
       => LET a == last'.args
              foreign == NotOf(a.userId)
          IN /\ \A k \in foreign : k \in DOMAIN tasks' /\ tasks'[k] = tasks[k]
             /\ IsDoc(last'.doc) => last'.doc._id.v \notin foreign
             /\ (last'.route \in SingleTaskRoutes /\ a.taskIds \cap foreign # {})
                  => last'.status = 404 /\ last'.message = "Task not found"
             /\ (last'.route \in BulkRoutes /\ last'.handler)
                  => last'.count = Cardinality((a.taskIds \cap DOMAIN tasks) \ foreign)
    ]_vars

\* C23 (amended): a task that is not A's when the call is made is neither
\* returned, modified nor deleted; a single-task call on such an id never
\* succeeds, and fails with 'Task not found' (404) unless its data was
\* rejected (400) before the store was consulted; bulk calls count only A's
\* tasks.
C23_OnlyOwnTasks ==
  [][(last = Idle /\ last'.route \in SingleTaskRoutes \cup BulkRoutes)
       => LET a == last'.args
              foreign == NotOf(a.userId)
          IN /\ \A k \in foreign : k \in DOMAIN tasks' /\ tasks'[k] = tasks[k]
             /\ IsDoc(last'.doc) => last'.doc._id.v \notin foreign
             /\ (last'.route \in SingleTaskRoutes /\ a.taskIds \cap foreign # {})
                  => /\ ~last'.handler
                     /\ \/ last'.status = 404 /\ last'.message = "Task not found"
                        \/ /\ last'.status = 400
                           /\ \/ ~validateTaskData(a.data, "update")
                              \/ ~TaskPathsValid(a.data)
                              \/ /\ last'.route = "TaskService.updateTaskStatus"
                                 /\ a.data.status \notin Statuses
             /\ (last'.route \in BulkRoutes /\ last'.handler)
                  => last'.count = Cardinality((a.taskIds \cap DOMAIN tasks) \ foreign)
    ]_vars

\* user 1 asked to update a stored task of another user with valid data and
\* was answered 'Task not found'; the task is as it was
C23_Witness ==
  /\ last.route = "TaskService.updateTask"
  /\ last.args.userId = 1
  /\ last.args.data.status = "completed"
  /\ \E k \in last.args.taskIds :
       k \in DOMAIN tasks /\ tasks[k].userId = Oid(2) /\ tasks[k].status = "pending"
  /\ last.status = 404 /\ last.message = "Task not found"

\* C24: after any sequence of TaskService.createTask, updateTask,
\* updateTaskStatus and bulkUpdateTasks calls every stored task's status is
\* one of pending, in-progress, completed; a call that carries any other
\* status value fails with a 400 error and leaves every stored task
\* unchanged.
C24_StatusAlwaysValid ==
  [][/\ \A k \in DOMAIN tasks' : tasks'[k].status \in Statuses
     /\ (/\ last = Idle
         /\ last'.route \in {"TaskService.createTask", "TaskService.updateTask",
                              "TaskService.updateTaskStatus",
                              "TaskService.bulkUpdateTasks"}
         /\ last'.args.data.status \notin Statuses \cup {Absent})
          => last'.status = 400 /\ tasks' = tasks
    ]_vars

\* C26: a task's owner is fixed at creation: whatever updateData is passed
\* to TaskService.updateTask, updateTaskStatus or bulkUpdateTasks, the
\* userId of every stored task stays the userId it was created with.
C26_OwnerFixed ==
  [][\A k \in DOMAIN tasks \cap DOMAIN tasks' : tasks'[k].userId = tasks[k].userId]_vars

\* C25: when the owner of an existing task calls the function-style
\* deleteTask(userId, taskId), the task with id taskId is removed from the
\* store and returned to the caller, and a later getTask for that id fails
\* with 'Task not found'.
C25_OwnerDeletes ==
  [][/\ (/\ last = Idle /\ last'.route = "deleteTask"
         /\ \E k \in last'.args.taskIds :
              k \in DOMAIN tasks /\ tasks[k].userId = Oid(last'.args.userId))
          => \A k \in last'.args.taskIds :
               /\ k \notin DOMAIN tasks'
               /\ last'.handler /\ last'.doc = tasks[k]
     /\ (/\ last = Idle /\ last'.route = "getTask"
         /\ last'.args.taskIds \cap DOMAIN tasks = {})
          => ~last'.handler /\ last'.message = "Error fetching task: Task not found"
    ]_vars

\* the fields updateProfile must leave alone
Protected == {"email", "userName", "password", "isAdmin"}

C28_LikesWellFormed ==
  [][/\ \A n \in DOMAIN users' :
          LET likes == Likes(users'[n]) IN
          /\ \A i \in DOMAIN likes : likes[i] # Oid(n)
          /\ \A i, j \in DOMAIN likes : likes[i] = likes[j] => i = j
     /\ \A p \in Procs :
          (calls[p].pc = "idle" /\ calls'[p].pc # "idle")
            => LET c == calls'[p]
                   n == CastOid(c.likerId).v
                   liked == n \in DOMAIN users /\ Includes(Likes(users[n]), c.profileId)
               IN /\ (c.op = "like" /\ liked) => c.pc = "failed" /\ users' = users
                  /\ (c.op = "unlike" /\ n \in DOMAIN users /\ ~liked)
                       => c.pc = "failed" /\ users' = users
    ]_vars

\* the token presented was produced by the named generator
ProducedBy(tok, by) == \E i \in issued : i.tok = tok /\ i.by = by

\* C29: access and refresh tokens are not interchangeable: a token produced
\* by generateRefreshToken is never accepted by verifyToken or
\* authMiddleware as an access credential, and a token produced by
\* generateToken is never accepted by verifyRefreshToken, whether or not
\* JWT_REFRESH_SECRET is configured.
C29_NotInterchangeable ==
  LET tok == last.req.header.tok IN
  /\ (last.route = "verifyToken" /\ ProducedBy(tok, "generateRefreshToken"))
       => ~last.handler
  /\ (last.gate = "authMiddleware" /\ last.req.header.scheme = "Bearer"
        /\ ProducedBy(tok, "generateRefreshToken"))
       => ~last.gateNext /\ ~last.handler
  /\ (last.route = "verifyRefreshToken" /\ ProducedBy(tok, "generateToken"))
       => ~last.handler

====
